---- MODULE Spec2Model ----
(***************************************************************************)
(* A model of the Prolog engine: the clause compiler and the VM            *)
(* (vm.go: arrive, exec, clauses.Call, compile), the built-ins of          *)
(* builtin.go (Call, Cut, Assertz, nameArgs), the Solutions handle, and    *)
(* the term functions Compound.Unify and Set.                              *)
(*                                                                         *)
(* The nondet package (Delay, Opaque, Cut, Bool, Error, Force), the        *)
(* Unify methods of Variable/Atom/Integer, compare and the goroutine that  *)
(* feeds a Solutions value are not among the source files; they are        *)
(* modelled from the specification document.                               *)
(***************************************************************************)
EXTENDS Integers, Sequences, FiniteSets, TLC

(***************************************************************************)
(* Bounds of the model.                                                    *)
(***************************************************************************)
\* number of successful Assertz calls in one behaviour
MaxClauses == 3
\* number of Variable cells allocated in one behaviour
MaxVars == 12
\* number of clauses.Call invocations in one behaviour
MaxInv == 8

-----------------------------------------------------------------------------
(***************************************************************************)
(* Terms.  Every term is a record of the same shape:                       *)
(*   k = "atom" (n the name), "int" (v the value), "var" (n the name of a  *)
(*   source variable, or v > 0 the index of a Variable cell),              *)
(*   "cmp" (n the functor, args the arguments), "pi" (a                    *)
(*   procedureIndicator n/v) and "nil" (Go's nil).                         *)
(***************************************************************************)
Atom(n) == [k |-> "atom", n |-> n, v |-> 0, args |-> <<>>]

Integer(i) == [k |-> "int", n |-> "", v |-> i, args |-> <<>>]

\* a variable of a clause as read: identified by its name
Variable(n) == [k |-> "var", n |-> n, v |-> 0, args |-> <<>>]

\* a Variable cell of the running engine: identified by its index
Cell(i) == [k |-> "var", n |-> "", v |-> i, args |-> <<>>]

Compound(f, as) == [k |-> "cmp", n |-> f, v |-> 0, args |-> as]

procedureIndicator(name, arity) == [k |-> "pi", n |-> name, v |-> arity, args |-> <<>>]

Nil == [k |-> "nil", n |-> "", v |-> 0, args |-> <<>>]

-----------------------------------------------------------------------------
(***************************************************************************)
(* Variable cells: refs[i] is the Ref field of cell i, Nil when unbound.   *)
(***************************************************************************)
RECURSIVE Resolve(_, _)
Resolve(t, refs) ==
    IF t.k = "var" /\ t.v > 0 /\ refs[t.v] # Nil
    THEN Resolve(refs[t.v], refs)
    ELSE t

\* Unify of two flat terms on the cells: [ok, refs]
Unify(t1, t2, refs) ==
    LET a == Resolve(t1, refs)
        b == Resolve(t2, refs)
    IN  IF a.k = "var"
        THEN IF b = a
             THEN [ok |-> TRUE, refs |-> refs]
             ELSE [ok |-> TRUE, refs |-> [refs EXCEPT ![a.v] = b]]
        ELSE IF b.k = "var"
             THEN [ok |-> TRUE, refs |-> [refs EXCEPT ![b.v] = a]]
             ELSE [ok |-> a = b, refs |-> refs]

RECURSIVE appendFreeVariables(_, _, _)
RECURSIVE appendFreeArgs(_, _, _)
appendFreeVariables(fvs, t, refs) ==
    IF t.k = "var"
    THEN IF refs[t.v] # Nil
         THEN appendFreeVariables(fvs, refs[t.v], refs)
         ELSE IF \E i \in 1..Len(fvs) : fvs[i] = t.v
              THEN fvs
              ELSE Append(fvs, t.v)
    ELSE IF t.k = "cmp"
         THEN appendFreeArgs(fvs, t.args, refs)
         ELSE fvs

\* the loop of appendFreeVariables over the arguments of a compound
appendFreeArgs(fvs, as, refs) ==
    IF as = <<>>
    THEN fvs
    ELSE appendFreeArgs(appendFreeVariables(fvs, Head(as), refs), Tail(as), refs)

RECURSIVE FreeVariables(_, _)
FreeVariables(ts, refs) ==
    IF ts = <<>>
    THEN <<>>
    ELSE appendFreeVariables(FreeVariables(SubSeq(ts, 1, Len(ts) - 1), refs),
                             ts[Len(ts)], refs)

ResetVariables(vs, refs) ==
    [i \in DOMAIN refs |-> IF \E j \in 1..Len(vs) : vs[j] = i THEN Nil ELSE refs[i]]

-----------------------------------------------------------------------------
(***************************************************************************)
(* Environments (package engine): env[n] is the binding of the variable    *)
(* named n, Nil when it has none.                                          *)
(***************************************************************************)
\* the variables of the terms handed to Compound.Unify and Set
VarNames == {"X", "Y"}

NewEnv == [n \in VarNames |-> Nil]

Bind(env, v, t) == [env EXCEPT ![v.n] = t]

RECURSIVE EnvResolve(_, _)
EnvResolve(t, env) ==
    IF t.k = "var" /\ env[t.n] # Nil
    THEN EnvResolve(env[t.n], env)
    ELSE t

\* whether the variable v occurs in t
RECURSIVE Contains(_, _, _)
Contains(t, v, env) ==
    LET r == EnvResolve(t, env)
    IN  \/ r = v
        \/ r.k = "cmp" /\ \E i \in 1..Len(r.args) : Contains(r.args[i], v, env)

\* nested Unify calls a goroutine's stack holds
MaxDepth == 8

Unified(env, ok) == [ok |-> ok, env |-> env, err |-> ""]

\* the goroutine's stack is exhausted
Overflow(env) == [ok |-> FALSE, env |-> env, err |-> "stack overflow"]

RECURSIVE TermUnify(_, _, _, _, _)
RECURSIVE UnifyArgs(_, _, _, _, _, _)

\* Atom.Unify and Integer.Unify
ConstUnify(a, t, occursCheck, env, d) ==
    LET r == EnvResolve(t, env)
    IN  IF d = 0 THEN Overflow(env)
        ELSE IF r.k = "var" THEN TermUnify(r, a, occursCheck, env, d - 1)
        ELSE Unified(env, r = a)

\* Variable.Unify
VariableUnify(v, t, occursCheck, env, d) ==
    LET r == EnvResolve(v, env)
        u == EnvResolve(t, env)
    IN  IF d = 0 THEN Overflow(env)
        ELSE IF r.k # "var" THEN TermUnify(r, u, occursCheck, env, d - 1)
        ELSE IF r = u THEN Unified(env, TRUE)
        ELSE IF occursCheck /\ Contains(u, r, env) THEN Unified(env, FALSE)
        ELSE Unified(Bind(env, r, u), TRUE)

\* Compound.Unify without the comparison of the functors
CompoundUnifyAnyFunctor(c, t, occursCheck, env, d) ==
    LET r == EnvResolve(t, env)
    IN  IF d = 0 THEN Overflow(env)
        ELSE IF r.k = "cmp"
        THEN IF Len(c.args) # Len(r.args)
             THEN Unified(env, FALSE)
             ELSE UnifyArgs(c.args, r.args, 1, occursCheck, env, d)
        ELSE IF r.k = "var"
        THEN VariableUnify(r, c, occursCheck, env, d - 1)
        ELSE Unified(env, FALSE)

\* Compound.Unify
CompoundUnify(c, t, occursCheck, env, d) ==
    LET r == EnvResolve(t, env)
    IN  IF d = 0 THEN Overflow(env)
        ELSE IF r.k = "cmp"
        THEN IF c.n # r.n
             THEN Unified(env, FALSE)
             ELSE IF Len(c.args) # Len(r.args)
                  THEN Unified(env, FALSE)
                  ELSE UnifyArgs(c.args, r.args, 1, occursCheck, env, d)
        ELSE IF r.k = "var"
        THEN VariableUnify(r, c, occursCheck, env, d - 1)
        ELSE Unified(env, FALSE)

\* the loop of Compound.Unify from index i on
UnifyArgs(as, bs, i, occursCheck, env, d) ==
    IF i > Len(as)
    THEN Unified(env, TRUE)
    ELSE LET u == TermUnify(as[i], bs[i], occursCheck, env, d - 1)
         IN  IF ~u.ok
             THEN u
             ELSE UnifyArgs(as, bs, i + 1, occursCheck, u.env, d)

\* the method the interface value t1 dispatches to
TermUnify(t1, t2, occursCheck, env, d) ==
    CASE t1.k = "cmp" -> CompoundUnify(t1, t2, occursCheck, env, d)
      [] t1.k = "var" -> VariableUnify(t1, t2, occursCheck, env, d)
      [] OTHER -> ConstUnify(t1, t2, occursCheck, env, d)

-----------------------------------------------------------------------------
(***************************************************************************)
(* Lists, the standard order of terms, and Set.                            *)
(***************************************************************************)
Float(i) == [k |-> "float", n |-> "", v |-> i, args |-> <<>>]

RECURSIVE List(_)
List(ts) ==
    IF ts = <<>>
    THEN Atom("[]")
    ELSE Compound(".", <<Head(ts), List(Tail(ts))>>)

\* the names of the model in lexicographic order
Names == <<".", "X", "Y", "[]", "a", "b", "f", "g">>

NameRank(n) == CHOOSE i \in 1..Len(Names) : Names[i] = n

\* variables < numbers < atoms < compounds
KindRank(t) ==
    CASE t.k = "var" -> 1
      [] t.k \in {"float", "int"} -> 2
      [] t.k = "atom" -> 3
      [] OTHER -> 4

Sign(i) == IF i < 0 THEN 0 - 1 ELSE IF i > 0 THEN 1 ELSE 0

\* compare: negative, zero or positive
RECURSIVE compare(_, _)
RECURSIVE compareArgs(_, _, _)
compare(a, b) ==
    IF KindRank(a) # KindRank(b) THEN Sign(KindRank(a) - KindRank(b))
    ELSE CASE a.k = "var" -> Sign(NameRank(a.n) - NameRank(b.n))
           [] a.k \in {"float", "int"} ->
                IF a.v # b.v THEN Sign(a.v - b.v)
                ELSE IF a.k = b.k THEN 0
                ELSE IF a.k = "float" THEN 0 - 1 ELSE 1
           [] a.k = "atom" -> Sign(NameRank(a.n) - NameRank(b.n))
           [] OTHER ->
                IF Len(a.args) # Len(b.args) THEN Sign(Len(a.args) - Len(b.args))
                ELSE IF a.n # b.n THEN Sign(NameRank(a.n) - NameRank(b.n))
                ELSE compareArgs(a.args, b.args, 1)

compareArgs(as, bs, i) ==
    IF i > Len(as) THEN 0
    ELSE IF compare(as[i], bs[i]) # 0 THEN compare(as[i], bs[i])
    ELSE compareArgs(as, bs, i + 1)

\* sort.Slice(us, less) with less(i, j) = compare(us[i], us[j]) < 0
RECURSIVE Insert(_, _)
Insert(us, u) ==
    IF us = <<>> THEN <<u>>
    ELSE IF compare(u, Head(us)) < 0 THEN <<u>> \o us
    ELSE <<Head(us)>> \o Insert(Tail(us), u)

RECURSIVE SortSlice(_)
SortSlice(us) ==
    IF us = <<>> THEN <<>>
    ELSE Insert(SortSlice(SubSeq(us, 1, Len(us) - 1)), us[Len(us)])

\* the loop of Set over us[1:]: out is us[:n], i the index of u
RECURSIVE Compact(_, _, _)
Compact(us, out, i) ==
    IF i > Len(us) THEN out
    ELSE IF compare(out[Len(out)], us[i]) = 0
         THEN Compact(us, out, i + 1)
         ELSE Compact(us, Append(out, us[i]), i + 1)

\* Set without the loop that drops equal neighbours
SetSortedOnly(ts) ==
    IF Len(ts) < 2
    THEN List(ts)
    ELSE List(SortSlice(ts))

Set(ts) ==
    IF Len(ts) < 2
    THEN List(ts)
    ELSE LET us == SortSlice(ts)
         IN  List(Compact(us, <<us[1]>>, 2))

-----------------------------------------------------------------------------
(***************************************************************************)
(* The clause compiler.                                                    *)
(***************************************************************************)
opVoid == 0
opEnter == 1
opCall == 2
opExit == 3
opConst == 4
opVar == 5
opFunctor == 6
opPop == 7
opCut == 8

\* a clause under compilation; err is "" while compilation succeeds
NewClause(pi, raw) ==
    [pi |-> pi, raw |-> raw, xrTable |-> <<>>, vars |-> <<>>, bytecode |-> <<>>, err |-> ""]

\* [c, off]: the offset is 0-based and stored in one byte
xrOffset(c, o) ==
    IF \E i \in 1..Len(c.xrTable) : c.xrTable[i] = o
    THEN [c |-> c,
          off |-> ((CHOOSE i \in 1..Len(c.xrTable) :
                       /\ c.xrTable[i] = o
                       /\ \A j \in 1..(i - 1) : c.xrTable[j] # o) - 1) % 256]
    ELSE [c |-> [c EXCEPT !.xrTable = Append(@, o)],
          off |-> Len(c.xrTable) % 256]

varOffset(c, o) ==
    IF \E i \in 1..Len(c.vars) : c.vars[i] = o
    THEN [c |-> c,
          off |-> ((CHOOSE i \in 1..Len(c.vars) :
                       /\ c.vars[i] = o
                       /\ \A j \in 1..(i - 1) : c.vars[j] # o) - 1) % 256]
    ELSE [c |-> [c EXCEPT !.vars = Append(@, o)],
          off |-> Len(c.vars) % 256]

RECURSIVE compileArg(_, _)
RECURSIVE compileArgs(_, _)
compileArg(c, a) ==
    CASE a.k = "var" ->
            LET r == varOffset(c, a)
            IN  [r.c EXCEPT !.bytecode = @ \o <<opVar, r.off>>]
      [] a.k \in {"int", "atom"} ->
            LET r == xrOffset(c, a)
            IN  [r.c EXCEPT !.bytecode = @ \o <<opConst, r.off>>]
      [] a.k = "cmp" ->
            LET r == xrOffset(c, procedureIndicator(a.n, Len(a.args)))
                d == compileArgs([r.c EXCEPT !.bytecode = @ \o <<opFunctor, r.off>>], a.args)
            IN  IF d.err # "" THEN d ELSE [d EXCEPT !.bytecode = Append(@, opPop)]
      [] OTHER -> [c EXCEPT !.err = "system_error(unknown argument)"]

\* the loops "for _, a := range Args { compileArg(a) }", stopping at an error
compileArgs(c, as) ==
    IF as = <<>> \/ c.err # ""
    THEN c
    ELSE compileArgs(compileArg(c, Head(as)), Tail(as))

compilePred(c, p) ==
    CASE p.k = "atom" ->
            IF p.n = "!"
            THEN [c EXCEPT !.bytecode = Append(@, opCut)]
            ELSE LET r == xrOffset(c, procedureIndicator(p.n, 0))
                 IN  [r.c EXCEPT !.bytecode = @ \o <<opCall, r.off>>]
      [] p.k = "cmp" ->
            LET d == compileArgs(c, p.args)
            IN  IF d.err # ""
                THEN d
                ELSE LET r == xrOffset(d, procedureIndicator(p.n, Len(p.args)))
                     IN  [r.c EXCEPT !.bytecode = @ \o <<opCall, r.off>>]
      [] OTHER -> [c EXCEPT !.err = "type_error(callable)"]

\* the body loop of compileClause: split on ,/2 from the left
RECURSIVE compileBody(_, _)
compileBody(c, body) ==
    IF c.err # ""
    THEN c
    ELSE IF body.k = "cmp" /\ body.n = "," /\ Len(body.args) = 2
         THEN compileBody(compilePred(c, body.args[1]), body.args[2])
         ELSE compilePred(c, body)

\* compileClause without its last instruction
compileClauseNoExit(c, head, body) ==
    LET h == CASE head.k = "atom" -> c
               [] head.k = "cmp" -> compileArgs(c, head.args)
               [] OTHER -> [c EXCEPT !.err = "type_error(callable)"]
    IN  IF h.err # "" \/ body = Nil
        THEN h
        ELSE compileBody([h EXCEPT !.bytecode = Append(@, opEnter)], body)

compileClause(c, head, body) ==
    LET h == CASE head.k = "atom" -> c
               [] head.k = "cmp" -> compileArgs(c, head.args)
               [] OTHER -> [c EXCEPT !.err = "type_error(callable)"]
        b == IF h.err # "" \/ body = Nil
             THEN h
             ELSE compileBody([h EXCEPT !.bytecode = Append(@, opEnter)], body)
    IN  IF b.err # "" THEN b ELSE [b EXCEPT !.bytecode = Append(@, opExit)]

\* clause.compile: t0 is resolved on the cells, its head and its body are not
compile(c, t0, rf) ==
    CASE Resolve(t0, rf).k = "atom" ->
            compileClause([c EXCEPT !.raw = Resolve(t0, rf)], Resolve(t0, rf), Nil)
      [] Resolve(t0, rf).k = "cmp" ->
            IF Resolve(t0, rf).n = ":-"
            THEN compileClause([c EXCEPT !.raw = Resolve(t0, rf)],
                               Resolve(t0, rf).args[1], Resolve(t0, rf).args[2])
            ELSE compileClause([c EXCEPT !.raw = Resolve(t0, rf)], Resolve(t0, rf), Nil)
      [] OTHER -> [c EXCEPT !.raw = Resolve(t0, rf), !.err = "type_error(callable)"]

\* nameArgs of builtin.go on Resolve(t): [err, pi, args]
nameArgs(t0, refs) ==
    LET t == Resolve(t0, refs)
    IN  CASE t.k = "atom" ->
                [err |-> "", pi |-> procedureIndicator(t.n, 0), args |-> <<>>]
          [] t.k = "cmp" ->
                [err |-> "", pi |-> procedureIndicator(t.n, Len(t.args)), args |-> t.args]
          [] OTHER -> [err |-> "not callable", pi |-> Nil, args |-> <<>>]

-----------------------------------------------------------------------------
(***************************************************************************)
(* Promises.  A promise is a record of one shape; t names the closure it   *)
(* delays:                                                                 *)
(*   "bool", "error"   final results                                       *)
(*   "arrive"          Delay(vm.arrive(pi, astack, k))        (exec opCall)*)
(*   "pcall"           Delay(p.Call(vm, args, k))             (arrive)     *)
(*   "opaque"          Opaque(Delay(ks...))                   (clauses.Call)*)
(*   "barrier"         the cut barrier an Opaque leaves while it is forced *)
(*   "alts"            Delay(ks[ci], ..., ks[n])                           *)
(*   "exec"            Delay(vm.exec(pc, xr, vars, k, args, astack))       *)
(*   "exit", "fail"    cont.exit and cont.fail of attempt ci of inv        *)
(*   "cont"            a continuation k                                    *)
(* cut = TRUE marks Cut(p).  A continuation k is [t, inv, ci, pc, vars, w]:*)
(* "top" is the continuation of the host, "body" resumes clause ci of      *)
(* invocation inv at pc; w counts the exec([opExit]) wrappers that         *)
(* predicateN.Call puts around it.                                         *)
(* args is the argument list exec works on: a complete list (open = FALSE, *)
(* items the elements still to match) or a list under construction whose   *)
(* tail is an unbound variable (open = TRUE, items the elements so far).   *)
(* up holds what opFunctor has put on astack: the lists to go on with at   *)
(* the opPops to come, the innermost last.                                 *)
(***************************************************************************)
NoK == [t |-> "none", inv |-> 0, ci |-> 0, pc |-> 0, vars |-> <<>>, w |-> 0]

TopK == [NoK EXCEPT !.t = "top"]

BodyK(inv, ci, pc, vars) ==
    [t |-> "body", inv |-> inv, ci |-> ci, pc |-> pc, vars |-> vars, w |-> 0]

NoArgs == [open |-> FALSE, items |-> <<>>, up |-> <<>>]

Promise ==
    [t |-> "", inv |-> 0, ci |-> 0, pc |-> 0, vars |-> <<>>, args |-> NoArgs,
     pi |-> Nil, k |-> NoK, ok |-> FALSE, err |-> "", cut |-> FALSE, base |-> 0]

Bool(ok) == [Promise EXCEPT !.t = "bool", !.ok = ok]

Error(err) == [Promise EXCEPT !.t = "error", !.err = err]

DelayArrive(pi, items, k) ==
    [Promise EXCEPT !.t = "arrive", !.pi = pi, !.args = [NoArgs EXCEPT !.items = items],
                    !.k = k]

DelayCall(pi, items, k) ==
    [Promise EXCEPT !.t = "pcall", !.pi = pi, !.args = [NoArgs EXCEPT !.items = items],
                    !.k = k]

Opaque(inv) == [Promise EXCEPT !.t = "opaque", !.inv = inv]

Barrier(inv) == [Promise EXCEPT !.t = "barrier", !.inv = inv]

DelayAlts(inv, ci) == [Promise EXCEPT !.t = "alts", !.inv = inv, !.ci = ci]

DelayExec(inv, ci, pc, vars, args) ==
    [Promise EXCEPT !.t = "exec", !.inv = inv, !.ci = ci, !.pc = pc, !.vars = vars,
                    !.args = args]

ContExit(inv, ci) == [Promise EXCEPT !.t = "exit", !.inv = inv, !.ci = ci]

ContFail(inv, ci) == [Promise EXCEPT !.t = "fail", !.inv = inv, !.ci = ci]

DelayK(k) == [Promise EXCEPT !.t = "cont", !.k = k]

\* nondet.Cut(p)
CutPromise(p) == [p EXCEPT !.cut = TRUE]

-----------------------------------------------------------------------------
(***************************************************************************)
(* Unification of terms on the cells, and Functor as exec calls it.        *)
(***************************************************************************)
Cons(car, cdr) == Compound(".", <<car, cdr>>)

\* Term.Unify on the cells: [ok, refs]
RECURSIVE UnifyCells(_, _, _)
RECURSIVE UnifyCellArgs(_, _, _, _)
UnifyCells(t1, t2, cells) ==
    LET a == Resolve(t1, cells)
        b == Resolve(t2, cells)
    IN  IF a.k = "var"
        THEN IF b = a
             THEN [ok |-> TRUE, refs |-> cells]
             ELSE [ok |-> TRUE, refs |-> [cells EXCEPT ![a.v] = b]]
        ELSE IF b.k = "var"
             THEN [ok |-> TRUE, refs |-> [cells EXCEPT ![b.v] = a]]
             ELSE IF a.k = "cmp" /\ b.k = "cmp"
                  THEN IF a.n # b.n \/ Len(a.args) # Len(b.args)
                       THEN [ok |-> FALSE, refs |-> cells]
                       ELSE UnifyCellArgs(a.args, b.args, 1, cells)
                  ELSE [ok |-> a = b, refs |-> cells]

UnifyCellArgs(as, bs, i, cells) ==
    IF i > Len(as)
    THEN [ok |-> TRUE, refs |-> cells]
    ELSE LET u == UnifyCells(as[i], bs[i], cells)
         IN  IF u.ok THEN UnifyCellArgs(as, bs, i + 1, u.refs) ELSE u

\* what Functor returns, and the cells it leaves
FunctorReturn(ok, err, cells, n) == [ok |-> ok, err |-> err, refs |-> cells, n |-> n]

\* !f.Unify(name) || !a.Unify(arity), then k()
functorOf(f, a, nm, ar, cells, n) ==
    LET second(u) == FunctorReturn(u.ok, "", u.refs, n)
        first(u) ==
            IF ~u.ok
            THEN FunctorReturn(FALSE, "", u.refs, n)
            ELSE second(UnifyCells(a, ar, u.refs))
    IN  first(UnifyCells(f, nm, cells))

\* v.Unify(...), then k()
functorBind(v, t, cells, n) ==
    LET bound(u) == FunctorReturn(u.ok, "", u.refs, n)
    IN  bound(UnifyCells(v, t, cells))

\* the part of Functor after the Variable v was found unbound
functorCompose(v, nm, ar, cells, n) ==
    LET nr == Resolve(nm, cells)
        a == Resolve(ar, cells)
    IN  IF nr.k = "var"
        THEN FunctorReturn(FALSE, "invalid arguments: atom is not instantiated", cells, n)
        ELSE IF nr.k # "atom"
        THEN FunctorReturn(FALSE, "invalid arguments: name is %T", cells, n)
        ELSE IF a.k # "int"
        THEN FunctorReturn(FALSE, "invalid arguments", cells, n)
        ELSE IF a.v = 0
        THEN functorBind(v, a, cells, n)
        ELSE IF a.v < 0
        THEN FunctorReturn(FALSE, "panic: makeslice: len out of range", cells, n)
        ELSE functorBind(v, Compound(nr.n, [i \in 1..a.v |-> Cell(n + i)]),
                         cells, n + a.v)

Functor(tm, nm, ar, cells, n) ==
    LET t == Resolve(tm, cells)
    IN  CASE t.k = "atom" -> functorOf(t, Integer(0), nm, ar, cells, n)
          [] t.k = "var" -> functorCompose(t, nm, ar, cells, n)
          [] t.k = "cmp" ->
                functorOf(Atom(t.n), Integer(Len(t.args)), nm, ar, cells, n)
          [] OTHER -> FunctorReturn(FALSE, "", cells, n)

-----------------------------------------------------------------------------
(***************************************************************************)
(* VM.exec.  The Variables arest of its list cells are not cells of the    *)
(* model: args.items and args.up stand for the lists they are bound to.    *)
(* astack is args.up, on top of the empty list while the head is matched   *)
(* and on top of the list under construction in a body.                    *)
(***************************************************************************)
\* args.Unify(&Compound{".", [x, &arest]}) followed by args = &arest
UnifyCons(args, x, refs) ==
    IF args.open
    THEN [ok |-> TRUE, args |-> [args EXCEPT !.items = Append(@, x)], refs |-> refs]
    ELSE IF args.items = <<>>
         THEN [ok |-> FALSE, args |-> args, refs |-> refs]
         ELSE LET u == UnifyCells(Head(args.items), x, refs)
              IN  [ok |-> u.ok, args |-> [args EXCEPT !.items = Tail(@)], refs |-> u.refs]

\* args.Unify(List())
UnifyNil(args) == args.open \/ args.items = <<>>

\* the list opFunctor leaves on astack: what follows arg
ArgsRest(args, arg) ==
    IF args.open
    THEN [open |-> TRUE, items |-> Append(args.items, arg)]
    ELSE [open |-> FALSE, items |-> Tail(args.items)]

\* [p, refs, cutAt, n]: the promise returned, the cells, the position of the
\* opCut that was run, the number of Variables allocated; n > MaxVars says
\* that the model has no cell left for the Variables of an opFunctor
RECURSIVE exec(_, _, _, _, _, _, _, _)
exec(c, pc, vars, inv, ci, args, refs, n) ==
    IF pc > Len(c.bytecode)
    THEN [p |-> Error("non-exit end of bytecode"), refs |-> refs, cutAt |-> 0, n |-> n]
    ELSE LET op == c.bytecode[pc]
             kfail == [p |-> ContFail(inv, ci), refs |-> refs, cutAt |-> 0, n |-> n]
         IN  CASE op = opVoid -> exec(c, pc + 1, vars, inv, ci, args, refs, n)
               [] op = opConst ->
                    LET r == UnifyCons(args, c.xrTable[c.bytecode[pc + 1] + 1], refs)
                    IN  IF ~r.ok
                        THEN [kfail EXCEPT !.refs = r.refs]
                        ELSE exec(c, pc + 2, vars, inv, ci, r.args, r.refs, n)
               [] op = opVar ->
                    LET r == UnifyCons(args, Cell(vars[c.bytecode[pc + 1] + 1]), refs)
                    IN  IF ~r.ok
                        THEN [kfail EXCEPT !.refs = r.refs]
                        ELSE exec(c, pc + 2, vars, inv, ci, r.args, r.refs, n)
               [] op = opFunctor ->
                    \* arg is the next element of args: a new Variable when the
                    \* list is under construction.  Univ(&arg, [name | args])
                    \* with a new Variable args binds it to the arguments of a
                    \* compound and returns an error for anything else.
                    LET x == c.xrTable[c.bytecode[pc + 1] + 1]
                        m == IF args.open THEN n + 1 ELSE n
                        arg == IF args.open THEN Cell(n + 1) ELSE Head(args.items)
                        functored(f) ==
                            IF f.err # ""
                            THEN [p |-> Error(f.err), refs |-> f.refs, cutAt |-> 0,
                                  n |-> f.n]
                            ELSE IF ~f.ok
                            THEN [kfail EXCEPT !.refs = f.refs, !.n = f.n]
                            ELSE IF Resolve(arg, f.refs).k # "cmp"
                            THEN [p |-> Error("invalid argument"), refs |-> f.refs,
                                  cutAt |-> 0, n |-> f.n]
                            ELSE exec(c, pc + 2, vars, inv, ci,
                                      [open |-> FALSE,
                                       items |-> Resolve(arg, f.refs).args,
                                       up |-> Append(args.up, ArgsRest(args, arg))],
                                      f.refs, f.n)
                    IN  IF ~args.open /\ args.items = <<>>
                        THEN kfail
                        ELSE IF x.k # "pi"
                        THEN [p |-> Error("not a principal functor"), refs |-> refs,
                              cutAt |-> 0, n |-> n]
                        ELSE IF m + x.v > MaxVars
                        THEN [kfail EXCEPT !.n = MaxVars + 1]
                        ELSE functored(Functor(arg, Atom(x.n), Integer(x.v), refs, m))
               [] op = opPop ->
                    \* astack.Unify(&cons) fails on the empty list under the
                    \* lists of the head; compiled bytecode has no opPop
                    \* without its opFunctor
                    IF ~UnifyNil(args) \/ args.up = <<>>
                    THEN kfail
                    ELSE exec(c, pc + 1, vars, inv, ci,
                              [open |-> args.up[Len(args.up)].open,
                               items |-> args.up[Len(args.up)].items,
                               up |-> SubSeq(args.up, 1, Len(args.up) - 1)],
                              refs, n)
               [] op = opEnter ->
                    IF ~UnifyNil(args) \/ args.up # <<>> \/ (args.open /\ args.items # <<>>)
                    THEN kfail
                    ELSE exec(c, pc + 1, vars, inv, ci, [NoArgs EXCEPT !.open = TRUE],
                              refs, n)
               [] op = opCall ->
                    IF ~UnifyNil(args)
                    THEN kfail
                    ELSE LET x == c.xrTable[c.bytecode[pc + 1] + 1]
                         IN  IF x.k # "pi"
                             THEN [p |-> Error("not a principal functor"), refs |-> refs,
                                   cutAt |-> 0, n |-> n]
                             ELSE [p |-> DelayArrive(x,
                                                     IF args.open THEN args.items ELSE <<>>,
                                                     BodyK(inv, ci, pc + 2, vars)),
                                   refs |-> refs, cutAt |-> 0, n |-> n]
               [] op = opExit ->
                    [p |-> ContExit(inv, ci), refs |-> refs, cutAt |-> 0, n |-> n]
               [] op = opCut ->
                    [p |-> CutPromise(DelayExec(inv, ci, pc + 1, vars, args)),
                     refs |-> refs, cutAt |-> pc, n |-> n]
               [] OTHER -> [p |-> Error("unknown op"), refs |-> refs, cutAt |-> 0, n |-> n]

-----------------------------------------------------------------------------
(***************************************************************************)
(* The state of a Solutions value, of its two channels and of the          *)
(* goroutine that searches.                                                *)
(***************************************************************************)
VARIABLES
    closed,       \* s.closed
    more,         \* the channel s.more: [open, buf]
    moreCloses,   \* how often close(s.more) has run
    next,         \* the channel s.next: [open]
    offer,        \* the searching goroutine stands in "next <- env"
    cpc,          \* where the host stands: "idle", or inside Next "send", "recv"
    ppc,          \* where the goroutine stands
    left,         \* solutions the search has not found yet
    calls,        \* the Close and Next calls that returned, with their results
    chanOps,      \* channel operations Next has performed
    panicked      \* a send on, or a close of, a closed channel

solVars == <<closed, more, moreCloses, next, offer, cpc, ppc, left, calls, chanOps,
             panicked>>

-----------------------------------------------------------------------------
(***************************************************************************)
(* One call of Compound.Unify and one call of Set.                         *)
(***************************************************************************)
VARIABLES
    uniC,         \* the receiver of Compound.Unify
    uniT,         \* its argument t
    uniOccurs,    \* its argument occursCheck
    uniEnv,       \* its argument env
    unified,      \* what it returned: [done, ok, env, err]
    setTs,        \* the arguments of Set
    setOut        \* what Set returned: [done, list]

termVars == <<uniC, uniT, uniOccurs, uniEnv, unified, setTs, setOut>>

-----------------------------------------------------------------------------
(***************************************************************************)
(* One call of Compound.Unparse, and one call of Parser.Term on what it    *)
(* wrote.                                                                  *)
(***************************************************************************)
VARIABLES
    unparseC,     \* the receiver of Compound.Unparse
    unparseOpts,  \* its argument opts
    unparseEnv,   \* its argument env
    written,      \* what it did: [done, toks, panic, over]
    parsed        \* what Parser.Term made of the tokens: [done, t, err]

writeVars == <<unparseC, unparseOpts, unparseEnv, written, parsed>>

-----------------------------------------------------------------------------
(***************************************************************************)
(* Compound.Unparse of a list, statement by statement.                     *)
(***************************************************************************)
VARIABLES
    wrC,          \* the receiver of Compound.Unparse, a list
    wrEnv,        \* its argument env
    wrT,          \* its local variable t, the rest of the list
    wrPc,         \* where it stands: "start", "loop" or "done"
    wrEmit        \* the tokens its last step emitted

loopVars == <<wrC, wrEnv, wrT, wrPc, wrEmit>>

-----------------------------------------------------------------------------
(***************************************************************************)
(* A ListIterator and the calls of its Next method.                        *)
(***************************************************************************)
VARIABLES
    li,           \* the ListIterator
    liCalls       \* what each call of Next returned, with Current() and Err() after it

listVars == <<li, liCalls>>

-----------------------------------------------------------------------------
(***************************************************************************)
(* A call of Seq, and a SeqIterator over what it returned.                 *)
(***************************************************************************)
VARIABLES
    seqTs,        \* the arguments ts of Seq
    seqOut,       \* what Seq returned
    si,           \* the SeqIterator
    siCalls       \* what each call of Next returned, with Current() after it

seqVars == <<seqTs, seqOut, si, siCalls>>

-----------------------------------------------------------------------------
(***************************************************************************)
(* An AltIterator and the calls of its Next method.                        *)
(***************************************************************************)
VARIABLES
    altT,         \* the term the AltIterator was made for
    ai,           \* the AltIterator
    aiCalls       \* what each call of Next returned, with Current() after it

altVars == <<altT, ai, aiCalls>>

-----------------------------------------------------------------------------
(***************************************************************************)
(* Univ(t, L, k) and, after it, Univ(S, L, k).                             *)
(***************************************************************************)
VARIABLES
    uvT,          \* the term t
    uvRefs,       \* the Ref field of every Variable of the two calls
    uvN,          \* number of Variables allocated
    uvFirst,      \* what Univ(t, L, k) returned: [done, ok, err]
    uvSecond      \* what Univ(S, L, k) returned: [done, ok, err]

univVars == <<uvT, uvRefs, uvN, uvFirst, uvSecond>>

-----------------------------------------------------------------------------
(***************************************************************************)
(* Functor(term, name, arity, k) and, after it, Functor(T, N2, A2, k).     *)
(***************************************************************************)
VARIABLES
    fnTerm,       \* the argument term
    fnGiven,      \* the term the argument term stands for, Nil when unbound
    fnName,       \* the argument name
    fnArity,      \* the argument arity
    fnRefs,       \* the Ref field of every Variable of the two calls
    fnN,          \* number of Variables allocated
    fnFirst,      \* what the first call returned: [done, ok, err]
    fnSecond      \* what the second call returned: [done, ok, err]

functorVars == <<fnTerm, fnGiven, fnName, fnArity, fnRefs, fnN, fnFirst, fnSecond>>

-----------------------------------------------------------------------------
(***************************************************************************)
(* Engine.Op(precedence, typ, name, k): the operator table of the engine.  *)
(***************************************************************************)
VARIABLES
    operators,    \* e.operators, or NoTable when there is no engine
    opRet         \* what the last call of Op returned: [done, ok, err]

opVars == <<operators, opRet>>

-----------------------------------------------------------------------------
(***************************************************************************)
(* parseInteger(sign, s): the value of an integer literal.                 *)
(***************************************************************************)
VARIABLES
    intSign,      \* the sign argument
    intStr,       \* the literal
    intValue,     \* the number the literal was written from
    intRet        \* what parseInteger returned: [done, err, neg, mag]

intVars == <<intSign, intStr, intValue, intRet>>

-----------------------------------------------------------------------------
(***************************************************************************)
(* Parser.Term on a parser with a placeholder and a pool of variables.     *)
(***************************************************************************)
VARIABLES
    parseToks,    \* the tokens the lexer hands to the parser
    parseOps,     \* the operator table of the parser
    parseSrc,     \* the term the first clause was written from, or Nil
    parseArgs,    \* the arguments Replace was called with
    parseP,       \* placeholder, args, vars of the parser and NewVariable's count
    parsePos,     \* the position of the parser in parseToks
    parseStart,   \* the position at which the last call of Term began
    parseRet      \* the last call of Term: [calls, err, val]

parseVars == <<parseToks, parseOps, parseSrc, parseArgs, parseP, parsePos, parseStart, parseRet>>

-----------------------------------------------------------------------------
(***************************************************************************)
(* Engine.CurrentOp(precedence, typ, name, k): one call on the operator    *)
(* table of the engine.                                                    *)
(***************************************************************************)
VARIABLES
    coArgs,       \* the arguments precedence, typ and name of the call
    coKs,         \* coKs[i]: what k returns when it is called for table entry i
    coRefs,       \* the Ref fields of the Variables when the call began
    coOut         \* what the call returned and left: [done, ok, err, refs, log]

curVars == <<coArgs, coKs, coRefs, coOut>>

-----------------------------------------------------------------------------
(***************************************************************************)
(* clause.varOffset and clause.xrOffset: calls on one clause under         *)
(* compilation.                                                            *)
(***************************************************************************)
VARIABLES
    ocKind,       \* which of the two the calls go to: "var", "xr", "" for none
    ocC,          \* the clause
    ocFirst,      \* ocFirst[j]: the offset returned when entry j was appended
    ocLast        \* the last call: [done, o, off]

offVars == <<ocKind, ocC, ocFirst, ocLast>>

\* the state of the calls of pure functions other than Unify and Set
pureVars == <<writeVars,
              loopVars,
              listVars,
              seqVars,
              altVars,
              univVars,
              functorVars,
              opVars,
              intVars,
              parseVars,
              curVars,
              offVars>>

-----------------------------------------------------------------------------
(***************************************************************************)
(* The state of the VM.                                                    *)
(***************************************************************************)
VARIABLES
    \* VM
    procedures,   \* vm.procedures: procedureIndicator -> [kind, cs]
    unknown,      \* vm.unknown
    warnings,     \* what logrus has been handed
    refs,         \* the Ref field of every allocated Variable
    nvars,        \* number of allocated Variables
    invs,         \* the clauses.Call invocations: what their closures captured
    stack,        \* the promises Force still has to force, top last
    result,       \* what Force (or the call that never reached Force) returned
    trace,        \* the OnCall/OnRedo/OnExit/OnFail/OnExec("cut") hook calls
    solutions,    \* what the host's continuation has seen
    phase,        \* "load", "run", "done"
    goal,         \* the term handed to Engine.Call or run as a directive
    asserted,     \* the terms of the Assertz calls that returned without error
    assertErr     \* the error of the last Assertz call, "" for none

vmVars == <<procedures, unknown, warnings, refs, nvars, invs, stack, result, trace,
            solutions, phase, goal, asserted, assertErr>>

vars == <<vmVars, solVars, termVars, pureVars>>

\* what the VM leaves alone
notVM == <<solVars, termVars, pureVars>>

\* what a Solutions value leaves alone
notSol == <<vmVars, termVars, pureVars>>

NoChan == [open |-> FALSE, buf |-> <<>>]

\* what operators holds when there is no engine: no operator table
NoTable == <<Nil>>

\* no Solutions value exists
SolIdle ==
    /\ closed = FALSE
    /\ more = NoChan
    /\ moreCloses = 0
    /\ next = NoChan
    /\ offer = FALSE
    /\ cpc = "none"
    /\ ppc = "none"
    /\ left = 0
    /\ calls = <<>>
    /\ chanOps = 0
    /\ panicked = FALSE

\* neither Compound.Unify nor Set has been called
TermIdle ==
    /\ uniC = Nil
    /\ uniT = Nil
    /\ uniOccurs = FALSE
    /\ uniEnv = NewEnv
    /\ unified = [done |-> FALSE, ok |-> FALSE, env |-> NewEnv, err |-> ""]
    /\ setTs = <<>>
    /\ setOut = [done |-> FALSE, list |-> Nil]

\* Compound.Unparse has not been called
WriteIdle ==
    /\ unparseC = Nil
    /\ unparseOpts = [Ops |-> <<>>, Priority |-> 0, NumberVars |-> FALSE]
    /\ unparseEnv = NewEnv
    /\ written = [done |-> FALSE, toks |-> <<>>, panic |-> FALSE, over |-> FALSE]
    /\ parsed = [done |-> FALSE, t |-> Nil, err |-> ""]

\* Compound.Unparse of a list is not running
LoopIdle ==
    /\ wrC = Nil
    /\ wrEnv = NewEnv
    /\ wrT = Nil
    /\ wrPc = "none"
    /\ wrEmit = <<>>

\* no ListIterator exists
ListIdle ==
    /\ li = Nil
    /\ liCalls = <<>>

\* Seq has not been called and no SeqIterator exists
SeqIdle ==
    /\ seqTs = <<>>
    /\ seqOut = Nil
    /\ si = Nil
    /\ siCalls = <<>>

\* no AltIterator exists
AltIdle ==
    /\ altT = Nil
    /\ ai = Nil
    /\ aiCalls = <<>>

\* Univ has not been called
UnivIdle ==
    /\ uvT = Nil
    /\ uvRefs = <<>>
    /\ uvN = 0
    /\ uvFirst = [done |-> FALSE, ok |-> FALSE, err |-> ""]
    /\ uvSecond = [done |-> FALSE, ok |-> FALSE, err |-> ""]

\* Functor has not been called
FunctorIdle ==
    /\ fnTerm = Nil
    /\ fnGiven = Nil
    /\ fnName = Nil
    /\ fnArity = Nil
    /\ fnRefs = <<>>
    /\ fnN = 0
    /\ fnFirst = [done |-> FALSE, ok |-> FALSE, err |-> ""]
    /\ fnSecond = [done |-> FALSE, ok |-> FALSE, err |-> ""]

\* no engine with an operator table exists
OpIdle ==
    /\ operators = NoTable
    /\ opRet = [done |-> FALSE, ok |-> FALSE, err |-> ""]

\* parseInteger has not been called
IntIdle ==
    /\ intSign = 0
    /\ intStr = ""
    /\ intValue = <<>>
    /\ intRet = [done |-> FALSE, err |-> "", neg |-> FALSE, mag |-> <<>>]

\* no parser of this kind exists
ParseIdle ==
    /\ parseToks = <<>>
    /\ parseOps = <<>>
    /\ parseSrc = Nil
    /\ parseArgs = <<>>
    /\ parseP = [placeholder |-> "", args |-> <<>>, pooled |-> FALSE, vars |-> <<>>,
                 n |-> 0]
    /\ parsePos = 0
    /\ parseStart = 0
    /\ parseRet = [calls |-> 0, err |-> "", val |-> Nil]

\* CurrentOp has not been called
CurIdle ==
    /\ coArgs = <<>>
    /\ coKs = <<>>
    /\ coRefs = <<>>
    /\ coOut = [done |-> FALSE, ok |-> FALSE, err |-> "", refs |-> <<>>, log |-> <<>>]

\* neither has been called
OffIdle ==
    /\ ocKind = ""
    /\ ocC = Nil
    /\ ocFirst = <<>>
    /\ ocLast = [done |-> FALSE, o |-> Nil, off |-> 0]

\* no pure function other than Unify and Set has been called
PureIdle ==
    /\ WriteIdle
    /\ LoopIdle
    /\ ListIdle
    /\ SeqIdle
    /\ AltIdle
    /\ UnivIdle
    /\ FunctorIdle
    /\ OpIdle
    /\ IntIdle
    /\ ParseIdle
    /\ CurIdle
    /\ OffIdle

NoResult == [done |-> FALSE, ok |-> FALSE, err |-> ""]

Result(ok, err) == [done |-> TRUE, ok |-> ok, err |-> err]

\* vm.procedures[pi]; kind "none" is the nil of a missing key
Lookup(procs, pi) ==
    IF pi \in DOMAIN procs THEN procs[pi] ELSE [kind |-> "none", cs |-> <<>>]

Top == stack[Len(stack)]

Pop == SubSeq(stack, 1, Len(stack) - 1)

\* the variable of the host's query
Q == Cell(1)

-----------------------------------------------------------------------------
(***************************************************************************)
(* What the host feeds the engine.                                         *)
(***************************************************************************)
P(t) == Compound("p", <<t>>)

Conj(a, b) == Compound(",", <<a, b>>)

Rule(h, b) == Compound(":-", <<h, b>>)

\* r :- p(X), p(Y).
ClauseR == Rule(Atom("r"), Conj(P(Variable("X")), P(Variable("Y"))))

\* s :- p(X), p(Y), !, p(3).
ClauseS ==
    Rule(Atom("s"),
         Conj(P(Variable("X")), Conj(P(Variable("Y")), Conj(Atom("!"), P(Integer(3))))))

\* u :- p(X), call(!).
ClauseU ==
    Rule(Atom("u"), Conj(P(Variable("X")), Compound("call", <<Atom("!")>>)))

AssertzTerms ==
    {P(Integer(1)), P(Integer(2)), ClauseR, ClauseS, ClauseU,
     Integer(7), Atom("!"), Rule(Variable("H"), Atom("r")), Rule(Atom("r"), Integer(7)),
     Compound(":-", <<Atom("r")>>), Compound(":-", <<Integer(7)>>),
     Compound(":-", <<P(Integer(2))>>),
     Rule(Compound("call", <<Variable("G")>>), Atom("r"))}

Goals == {Atom("r"), Atom("s"), Atom("u"), P(Q), Q, Integer(1)}

UnknownActions == {"error", "fail", "warning"}

-----------------------------------------------------------------------------
(***************************************************************************)
(* VM.arrive: [p, warn]                                                    *)
(***************************************************************************)
\* VM.arrive with "warning" treated as "fail": nothing is logged
arriveSilent(procs, flag, pi, items, k) ==
    IF Lookup(procs, pi).kind = "none"
    THEN CASE flag = "error" ->
                [p |-> Error("existence_error(procedure)"), warn |-> <<>>]
           [] flag \in {"fail", "warning"} -> [p |-> Bool(FALSE), warn |-> <<>>]
           [] OTHER -> [p |-> Error("system_error(unknown unknown)"), warn |-> <<>>]
    ELSE [p |-> DelayCall(pi, items, k), warn |-> <<>>]

arrive(procs, flag, pi, items, k) ==
    IF Lookup(procs, pi).kind = "none"
    THEN CASE flag = "error" ->
                [p |-> Error("existence_error(procedure)"), warn |-> <<>>]
           [] flag = "warning" -> [p |-> Bool(FALSE), warn |-> <<pi>>]
           [] flag = "fail" -> [p |-> Bool(FALSE), warn |-> <<>>]
           [] OTHER -> [p |-> Error("system_error(unknown unknown)"), warn |-> <<>>]
    ELSE [p |-> DelayCall(pi, items, k), warn |-> <<>>]

(***************************************************************************)
(* Engine.Call of builtin.go: [p, warn].  A promise with err set and       *)
(* t = "error" is the (false, err) return.                                 *)
(***************************************************************************)
Call(procs, flag, t, k, rf) ==
    LET na == nameArgs(t, rf)
    IN  IF na.err # ""
        THEN [p |-> Error(na.err), warn |-> <<>>]
        ELSE arrive(procs, flag, na.pi, na.args, k)

(***************************************************************************)
(* Engine.Assertz of builtin.go, the part that stores a clause:            *)
(* [err, procs].  The directive case is in the action.                     *)
(***************************************************************************)
\* Engine.Assertz storing the new clause in front of the others
AssertzClauseInFront(procs, t) ==
    LET na == nameArgs(t, refs)
        ha == IF na.err = "" /\ na.pi = procedureIndicator(":-", 2)
              THEN nameArgs(na.args[1], refs)
              ELSE na
        p  == Lookup(procs, ha.pi)
        c  == compile(NewClause(ha.pi, t), t, refs)
    IN  IF ha.err # ""
        THEN [err |-> ha.err, procs |-> procs]
        ELSE IF p.kind = "builtin"
        THEN [err |-> "builtin", procs |-> procs]
        ELSE IF c.err # ""
        THEN [err |-> c.err, procs |-> procs]
        ELSE [err |-> "",
              procs |-> [q \in DOMAIN procs \cup {ha.pi} |->
                            IF q = ha.pi
                            THEN [kind |-> "clauses", cs |-> <<c>> \o p.cs]
                            ELSE procs[q]]]

AssertzClause(procs, t) ==
    LET na == nameArgs(t, refs)
        ha == IF na.err = "" /\ na.pi = procedureIndicator(":-", 2)
              THEN nameArgs(na.args[1], refs)
              ELSE na
        p  == Lookup(procs, ha.pi)
        c  == compile(NewClause(ha.pi, t), t, refs)
    IN  IF ha.err # ""
        THEN [err |-> ha.err, procs |-> procs]
        ELSE IF p.kind = "builtin"
        THEN [err |-> "builtin", procs |-> procs]
        ELSE IF c.err # ""
        THEN [err |-> c.err, procs |-> procs]
        ELSE [err |-> "",
              procs |-> [q \in DOMAIN procs \cup {ha.pi} |->
                            IF q = ha.pi
                            THEN [kind |-> "clauses", cs |-> Append(p.cs, c)]
                            ELSE procs[q]]]

-----------------------------------------------------------------------------
(***************************************************************************)
(* The host's calls.                                                       *)
(***************************************************************************)
\* Engine.Assertz storing the directive it runs as a clause of :-/1
AssertzDirectiveStored(t) ==
    /\ phase = "load"
    /\ Len(asserted) < MaxClauses
    /\ LET na == nameArgs(t, refs)
       IN  IF na.err = "" /\ na.pi = procedureIndicator(":-", 1)
           THEN \* directive: run it now, store nothing
                LET r == Call(procedures, unknown, na.args[1], TopK, refs)
                IN  /\ goal' = na.args[1]
                    /\ warnings' = warnings \o r.warn
                    /\ IF r.p.t = "error"
                       THEN /\ assertErr' = r.p.err
                            /\ UNCHANGED <<stack, phase>>
                       ELSE /\ stack' = <<r.p>>
                            /\ phase' = "run"
                            /\ assertErr' = ""
                    /\ procedures' =
                          [q \in DOMAIN procedures \cup {na.pi} |->
                              IF q = na.pi
                              THEN [kind |-> "clauses",
                                    cs |-> Append(Lookup(procedures, q).cs,
                                                  NewClause(na.pi, t))]
                              ELSE procedures[q]]
                    /\ UNCHANGED asserted
           ELSE LET a == AssertzClause(procedures, t)
                IN  /\ assertErr' = a.err
                    /\ procedures' = a.procs
                    /\ asserted' = IF a.err = "" THEN Append(asserted, t) ELSE asserted
                    /\ UNCHANGED <<stack, phase, goal, warnings>>
    /\ UNCHANGED <<unknown, refs, nvars, invs, result, trace, solutions, notVM>>

\* Engine.Assertz(t, k) with the host's continuation
Assertz(t) ==
    /\ phase = "load"
    /\ Len(asserted) < MaxClauses
    /\ LET na == nameArgs(t, refs)
       IN  IF na.err = "" /\ na.pi = procedureIndicator(":-", 1)
           THEN \* directive: run it now, store nothing
                LET r == Call(procedures, unknown, na.args[1], TopK, refs)
                IN  /\ goal' = na.args[1]
                    /\ warnings' = warnings \o r.warn
                    /\ IF r.p.t = "error"
                       THEN /\ assertErr' = r.p.err
                            /\ UNCHANGED <<stack, phase>>
                       ELSE /\ stack' = <<r.p>>
                            /\ phase' = "run"
                            /\ assertErr' = ""
                    /\ UNCHANGED <<procedures, asserted>>
           ELSE LET a == AssertzClause(procedures, t)
                IN  /\ assertErr' = a.err
                    /\ procedures' = a.procs
                    /\ asserted' = IF a.err = "" THEN Append(asserted, t) ELSE asserted
                    /\ UNCHANGED <<stack, phase, goal, warnings>>
    /\ UNCHANGED <<unknown, refs, nvars, invs, result, trace, solutions, notVM>>

\* Engine.Call(t, k) with the host's continuation, and Force of its promise
Query(t) ==
    /\ phase = "load"
    /\ LET r == Call(procedures, unknown, t, TopK, refs)
       IN  /\ goal' = t
           /\ warnings' = warnings \o r.warn
           /\ IF r.p.t = "error"
              THEN /\ result' = Result(FALSE, r.p.err)
                   /\ phase' = "done"
                   /\ UNCHANGED stack
              ELSE /\ stack' = <<r.p>>
                   /\ phase' = "run"
                   /\ UNCHANGED result
    /\ UNCHANGED <<procedures, unknown, refs, nvars, invs, trace, solutions, asserted,
                   assertErr, notVM>>

-----------------------------------------------------------------------------
(***************************************************************************)
(* Promise.Force: one action for each kind of promise on top of the stack. *)
(***************************************************************************)
Running == phase = "run" /\ stack # <<>>

frameRest == <<procedures, unknown, phase, goal, asserted, assertErr, notVM>>

\* Bool(true) ends Force with true; Bool(false) is dropped
ForceBool ==
    /\ Running /\ Top.t = "bool" /\ ~Top.cut
    /\ IF Top.ok
       THEN /\ result' = Result(TRUE, "")
            /\ stack' = <<>>
            /\ phase' = "done"
       ELSE /\ stack' = Pop
            /\ UNCHANGED <<result, phase>>
    /\ UNCHANGED <<procedures, unknown, warnings, refs, nvars, invs, trace, solutions,
                   goal, asserted, assertErr, notVM>>

\* Error(err) ends Force with the error
ForceError ==
    /\ Running /\ Top.t = "error" /\ ~Top.cut
    /\ result' = Result(FALSE, Top.err)
    /\ stack' = <<>>
    /\ phase' = "done"
    /\ UNCHANGED <<procedures, unknown, warnings, refs, nvars, invs, trace, solutions,
                   goal, asserted, assertErr, notVM>>

\* nothing left to force: Force returns false
ForceEnd ==
    /\ phase = "run" /\ stack = <<>>
    /\ result' = Result(FALSE, "")
    /\ phase' = "done"
    /\ UNCHANGED <<procedures, unknown, warnings, refs, nvars, invs, stack, trace,
                   solutions, goal, asserted, assertErr, notVM>>

\* the thunk of exec's opCall: vm.arrive(pi, astack, k)
ForceArrive ==
    /\ Running /\ Top.t = "arrive" /\ ~Top.cut
    /\ LET r == arrive(procedures, unknown, Top.pi, Top.args.items, Top.k)
       IN  /\ stack' = Append(Pop, r.p)
           /\ warnings' = warnings \o r.warn
    /\ UNCHANGED <<refs, nvars, invs, result, trace, solutions>>
    /\ UNCHANGED frameRest

\* the thunk of arrive, p a clauses value: clauses.Call up to its return
CallClauses ==
    /\ Running /\ Top.t = "pcall" /\ ~Top.cut
    /\ Lookup(procedures, Top.pi).kind = "clauses"
    /\ Len(invs) < MaxInv
    /\ LET cs == Lookup(procedures, Top.pi).cs
       IN  IF cs = <<>>
           THEN /\ stack' = Append(Pop, Bool(FALSE))
                /\ UNCHANGED invs
           ELSE /\ invs' = Append(invs,
                               [pi |-> Top.pi, cs |-> cs, args |-> Top.args.items,
                                fvs |-> FreeVariables(Top.args.items, refs), k |-> Top.k,
                                refs0 |-> refs, nvars0 |-> nvars, base |-> Len(stack) - 1])
                /\ stack' = Append(Pop, Opaque(Len(invs) + 1))
    /\ UNCHANGED <<warnings, refs, nvars, result, trace, solutions>>
    /\ UNCHANGED frameRest

\* the thunk of arrive, p a predicate0 or predicate1: call/1 is Engine.Call,
\* !/0 is Cut; both get k wrapped in exec([opExit])
CallBuiltin ==
    /\ Running /\ Top.t = "pcall" /\ ~Top.cut
    /\ Lookup(procedures, Top.pi).kind = "builtin"
    /\ LET k1 == [Top.k EXCEPT !.w = @ + 1]
       IN  IF Top.pi = procedureIndicator("call", 1)
           THEN LET r == Call(procedures, unknown, Top.args.items[1], k1, refs)
                IN  /\ stack' = Append(Pop, [r.p EXCEPT !.base = Len(stack) - 1])
                    /\ warnings' = warnings \o r.warn
           ELSE /\ stack' = Append(Pop, [CutPromise(DelayK(k1)) EXCEPT !.base = Top.base])
                /\ UNCHANGED warnings
    /\ UNCHANGED <<refs, nvars, invs, result, trace, solutions>>
    /\ UNCHANGED frameRest

\* Opaque(p): a cut barrier, then p
ForceOpaque ==
    /\ Running /\ Top.t = "opaque" /\ ~Top.cut
    /\ stack' = Pop \o <<Barrier(Top.inv), DelayAlts(Top.inv, 1)>>
    /\ UNCHANGED <<warnings, refs, nvars, invs, result, trace, solutions>>
    /\ UNCHANGED frameRest

\* the alternatives inside a barrier are exhausted
ForceBarrier ==
    /\ Running /\ Top.t = "barrier"
    /\ stack' = Pop
    /\ UNCHANGED <<warnings, refs, nvars, invs, result, trace, solutions>>
    /\ UNCHANGED frameRest

\* ks[i] handing exec the Variables the compiled clause keeps, here the
\* cells after the one of the host's query
attemptVarsStored(c, base) == [i \in 1..Len(c.vars) |-> 1 + i]

\* the vars of ks[i]: one new Variable for every entry of c.vars; base is the
\* number of Variables allocated so far
attemptVars(c, base) == [i \in 1..Len(c.vars) |-> base + i]

\* ks[i] calling OnCall whatever i is
attemptHookCallAlways(i) == "call"

\* the hook ks[i] calls first: OnCall for the first clause, OnRedo for the
\* others; i counts from 1
attemptHook(i) == IF i = 1 THEN "call" ELSE "redo"

\* Delay(ks...): ks[ci] is run, the later ones stay behind it
ForceAlts ==
    /\ Running /\ Top.t = "alts" /\ ~Top.cut
    /\ LET iv == invs[Top.inv]
           c  == iv.cs[Top.ci]
           n  == Len(c.vars)
           vs == attemptVars(c, nvars)
           later == IF Top.ci < Len(iv.cs)
                    THEN <<DelayAlts(Top.inv, Top.ci + 1)>>
                    ELSE <<>>
       IN  /\ nvars + n <= MaxVars
           /\ nvars' = nvars + n
           /\ refs' = IF Top.ci = 1 THEN refs ELSE ResetVariables(iv.fvs, refs)
           /\ trace' = Append(trace, [e |-> attemptHook(Top.ci),
                                      inv |-> Top.inv, ci |-> Top.ci, pc |-> 0])
           /\ stack' = Pop \o later
                           \o <<DelayExec(Top.inv, Top.ci, 1, vs,
                                          [NoArgs EXCEPT !.items = iv.args])>>
    /\ UNCHANGED <<warnings, invs, result, solutions>>
    /\ UNCHANGED frameRest

\* what exec returned, with the hook call of opCut
Executed(r, inv, ci) ==
    /\ r.n <= MaxVars
    /\ nvars' = r.n
    /\ stack' = Append(Pop, IF r.p.cut THEN [r.p EXCEPT !.base = invs[inv].base] ELSE r.p)
    /\ refs' = r.refs
    /\ trace' = IF r.cutAt > 0
                THEN Append(trace, [e |-> "cut", inv |-> inv, ci |-> ci, pc |-> r.cutAt])
                ELSE trace

\* Delay(vm.exec(...)): a clause from its first instruction, or on after a cut
ForceExec ==
    /\ Running /\ Top.t = "exec" /\ ~Top.cut
    /\ Executed(exec(invs[Top.inv].cs[Top.ci], Top.pc, Top.vars, Top.inv, Top.ci,
                     Top.args, refs, nvars),
                Top.inv, Top.ci)
    /\ UNCHANGED <<warnings, invs, result, solutions>>
    /\ UNCHANGED frameRest

\* a continuation inside a clause body: exec([opExit]) of a built-in's wrapper
\* returns the wrapped k, otherwise exec goes on after the call
ForceCont ==
    /\ Running /\ Top.t = "cont" /\ ~Top.cut
    /\ Top.k.t = "body" \/ Top.k.w > 0
    /\ IF Top.k.w > 0
       THEN /\ stack' = Append(Pop, DelayK([Top.k EXCEPT !.w = @ - 1]))
            /\ UNCHANGED <<refs, nvars, trace>>
       ELSE Executed(exec(invs[Top.k.inv].cs[Top.k.ci], Top.k.pc, Top.k.vars, Top.k.inv,
                          Top.k.ci, [NoArgs EXCEPT !.open = TRUE], refs, nvars),
                     Top.k.inv, Top.k.ci)
    /\ UNCHANGED <<warnings, invs, result, solutions>>
    /\ UNCHANGED frameRest

\* the continuation of the host: it sees a solution and stops or asks for more
ForceTop ==
    /\ Running /\ Top.t = "cont" /\ ~Top.cut
    /\ Top.k.t = "top" /\ Top.k.w = 0
    /\ solutions' = Append(solutions, Resolve(Q, refs))
    /\ \E again \in BOOLEAN : stack' = Append(Pop, Bool(~again))
    /\ UNCHANGED <<warnings, refs, nvars, invs, result, trace>>
    /\ UNCHANGED frameRest

\* cont.exit: OnExit, then the k of the invocation
ForceExit ==
    /\ Running /\ Top.t = "exit" /\ ~Top.cut
    /\ trace' = Append(trace, [e |-> "exit", inv |-> Top.inv, ci |-> Top.ci, pc |-> 0])
    /\ stack' = Append(Pop, DelayK(invs[Top.inv].k))
    /\ UNCHANGED <<warnings, refs, nvars, invs, result, solutions>>
    /\ UNCHANGED frameRest

\* cont.fail: OnFail, ResetVariables(fvs...), Bool(false)
ForceFail ==
    /\ Running /\ Top.t = "fail" /\ ~Top.cut
    /\ trace' = Append(trace, [e |-> "fail", inv |-> Top.inv, ci |-> Top.ci, pc |-> 0])
    /\ refs' = ResetVariables(invs[Top.inv].fvs, refs)
    /\ stack' = Append(Pop, Bool(FALSE))
    /\ UNCHANGED <<warnings, nvars, invs, result, solutions>>
    /\ UNCHANGED frameRest

\* the stack up to and including its topmost barrier
RECURSIVE UpToBarrier(_)
UpToBarrier(st) ==
    IF st = <<>> \/ st[Len(st)].t = "barrier"
    THEN st
    ELSE UpToBarrier(SubSeq(st, 1, Len(st) - 1))

\* Cut(p): the alternatives above the nearest enclosing barrier are discarded,
\* then p
ForceCut ==
    /\ Running /\ Top.cut
    /\ stack' = Append(UpToBarrier(Pop), [Top EXCEPT !.cut = FALSE])
    /\ UNCHANGED <<warnings, refs, nvars, invs, result, trace, solutions>>
    /\ UNCHANGED frameRest

-----------------------------------------------------------------------------
Builtins ==
    [pi \in {procedureIndicator("call", 1), procedureIndicator("!", 0)} |->
        [kind |-> "builtin", cs |-> <<>>]]

VMInit ==
    /\ procedures = Builtins
    /\ unknown \in UnknownActions
    /\ warnings = <<>>
    /\ refs = [i \in 1..(MaxVars + 1) |-> Nil]
    /\ nvars = 1
    /\ invs = <<>>
    /\ stack = <<>>
    /\ result = NoResult
    /\ trace = <<>>
    /\ solutions = <<>>
    /\ phase = "load"
    /\ goal = Nil
    /\ asserted = <<>>
    /\ assertErr = ""

Init == VMInit /\ SolIdle /\ TermIdle /\ PureIdle

Next ==
    \/ \E t \in AssertzTerms : Assertz(t)
    \/ \E t \in Goals : Query(t)
    \/ ForceBool
    \/ ForceError
    \/ ForceEnd
    \/ ForceArrive
    \/ CallClauses
    \/ CallBuiltin
    \/ ForceOpaque
    \/ ForceBarrier
    \/ ForceAlts
    \/ ForceExec
    \/ ForceCont
    \/ ForceTop
    \/ ForceExit
    \/ ForceFail
    \/ ForceCut

Spec == Init /\ [][Next]_vars

-----------------------------------------------------------------------------
(***************************************************************************)
(* Properties of the VM.                                                   *)
(***************************************************************************)
\* the hook calls of the attempts of invocation i, in the order they happened
Attempts(i) == SelectSeq(trace, LAMBDA ev : ev.e \in {"call", "redo"} /\ ev.inv = i)

\* invocation j was called from the body of attempt ci of invocation i, by a
\* goal that stands before position pc of that body
CalledLeftOf(j, i, ci, pc) ==
    /\ invs[j].k.t = "body"
    /\ invs[j].k.inv = i
    /\ invs[j].k.ci = ci
    /\ invs[j].k.pc <= pc

\* C1: when a call moves on to its next clause, every Variable that existed
\* when the call was entered has the Ref it had at that moment, whether or
\* not it occurs in the arguments of the call.
C1_RedoRestoresEntryBindings ==
    (Running /\ Top.t = "exec" /\ Top.pc = 1 /\ Top.ci > 1)
        => \A v \in 1..invs[Top.inv].nvars0 : refs[v] = invs[Top.inv].refs0[v]

\* C2: after opCut has run in clause ci of an invocation, no later clause of
\* that invocation is attempted and no invocation made by a goal to the left
\* of the cut gets a redo.
C2_CutCommits ==
    \A a \in 1..Len(trace) : \A b \in (a + 1)..Len(trace) :
        trace[a].e = "cut"
            => /\ ~(/\ trace[b].e \in {"call", "redo"}
                    /\ trace[b].inv = trace[a].inv
                    /\ trace[b].ci > trace[a].ci)
               /\ ~(/\ trace[b].e = "redo"
                    /\ CalledLeftOf(trace[b].inv, trace[a].inv, trace[a].ci, trace[a].pc)
                    /\ \E c \in 1..(a - 1) :
                          trace[c].e = "call" /\ trace[c].inv = trace[b].inv)

\* C3: a cut run inside a called procedure, or inside a goal run through
\* Call, leaves every promise that was pending when that callee was entered.
C3_CutIsLocal ==
    [][(Running /\ Top.cut)
          => SubSeq(stack', 1, Top.base) = SubSeq(stack, 1, Top.base)]_vars

\* the head of a clause term
HeadOf(t) == IF t.k = "cmp" /\ t.n = ":-" /\ Len(t.args) = 2 THEN t.args[1] ELSE t

Raws(cs) == [i \in 1..Len(cs) |-> cs[i].raw]

\* C4: the clauses of a predicate are stored in the order of the Assertz calls
\* that added them, every invocation attempts its clauses 1, 2, 3, ... in that
\* order, and the solutions of p(Q) come in the order of the p/1 facts.
C4_AssertionOrder ==
    /\ \A pi \in DOMAIN procedures :
          procedures[pi].kind = "clauses"
              => Raws(procedures[pi].cs)
                     = SelectSeq(asserted, LAMBDA t : nameArgs(HeadOf(t), refs).pi = pi)
    /\ \A i \in 1..Len(invs) :
          /\ invs[i].cs = procedures[invs[i].pi].cs
          /\ \A n \in 1..Len(Attempts(i)) : Attempts(i)[n].ci = n
    /\ goal = P(Q)
          => /\ Len(solutions) <= Len(Lookup(procedures, procedureIndicator("p", 1)).cs)
             /\ \A n \in 1..Len(solutions) :
                   solutions[n] = procedures[procedureIndicator("p", 1)].cs[n].raw.args[1]

C4_Witness ==
    /\ asserted = <<P(Integer(2)), P(Integer(1)), P(Integer(2))>>
    /\ goal = P(Q)
    /\ solutions = <<Integer(2), Integer(1), Integer(2)>>

\* the goal of the run is callable and its predicate has no procedure
GoalUnknown ==
    /\ nameArgs(goal, refs).err = ""
    /\ Lookup(procedures, nameArgs(goal, refs).pi).kind = "none"

\* C7: a goal without procedure ends as vm.unknown says: "error" gives an
\* existence error, "fail" plain failure, "warning" one log entry and failure;
\* no procedure is invoked.  Existence errors and log entries have no other
\* origin.
C7_UnknownFlag ==
    /\ (phase = "done" /\ GoalUnknown)
          => /\ invs = <<>> /\ trace = <<>> /\ solutions = <<>>
             /\ unknown = "error"
                   => result = Result(FALSE, "existence_error(procedure)") /\ warnings = <<>>
             /\ unknown = "fail" => result = Result(FALSE, "") /\ warnings = <<>>
             /\ unknown = "warning"
                   => result = Result(FALSE, "") /\ warnings = <<nameArgs(goal, refs).pi>>
    /\ result.err = "existence_error(procedure)" => unknown = "error"
    /\ warnings # <<>> => unknown = "warning"

C7_Witness ==
    /\ phase = "done" /\ GoalUnknown
    /\ unknown = "warning"
    /\ warnings = <<procedureIndicator("r", 0)>>
    /\ result = Result(FALSE, "")

\* C8: Call of an unbound variable ends with an instantiation error, Call of
\* a number with a type error; no procedure is invoked and the continuation
\* does not run.
C8_CallErrors ==
    (phase = "done" /\ goal # Nil /\ nameArgs(goal, refs).err # "")
        => /\ invs = <<>> /\ trace = <<>> /\ solutions = <<>>
           /\ Resolve(goal, refs).k = "var" => result.err = "instantiation_error"
           /\ Resolve(goal, refs).k = "int" => result.err = "type_error(callable)"

\* C33: in one invocation of a user procedure OnCall fires at most once, for
\* the first clause; OnRedo fires once for every later clause that is
\* attempted, after OnCall; an OnExit or OnFail of a clause comes after the
\* OnCall or OnRedo of the same attempt; every attempt under way has had its
\* OnCall or OnRedo; as long as the promise that clauses.Call returned has
\* not been forced, no hook of the invocation has fired.
C33_HookOrder ==
    /\ \A a \in 1..Len(trace) :
          /\ trace[a].e = "call"
                => /\ trace[a].ci = 1
                   /\ \A b \in 1..Len(trace) :
                         (trace[b].e = "call" /\ trace[b].inv = trace[a].inv) => b = a
          /\ trace[a].e = "redo"
                => /\ trace[a].ci > 1
                   /\ \E b \in 1..(a - 1) :
                         trace[b].e = "call" /\ trace[b].inv = trace[a].inv
                   /\ \A b \in 1..Len(trace) :
                         (/\ trace[b].e = "redo"
                          /\ trace[b].inv = trace[a].inv
                          /\ trace[b].ci = trace[a].ci) => b = a
          /\ trace[a].e \in {"exit", "fail"}
                => \E b \in 1..(a - 1) :
                      /\ trace[b].e \in {"call", "redo"}
                      /\ trace[b].inv = trace[a].inv
                      /\ trace[b].ci = trace[a].ci
    /\ \A i \in 1..Len(stack) :
          /\ stack[i].t \in {"exec", "exit", "fail"}
                => \E b \in 1..Len(trace) :
                      /\ trace[b].e = attemptHook(stack[i].ci)
                      /\ trace[b].inv = stack[i].inv
                      /\ trace[b].ci = stack[i].ci
          /\ stack[i].t = "opaque"
                => \A b \in 1..Len(trace) : trace[b].inv # stack[i].inv

\* an invocation with two clauses: OnCall and OnFail for the first, then
\* OnRedo and OnFail for the second
C33_Witness ==
    \E a \in 1..Len(trace) :
        /\ a + 3 <= Len(trace)
        /\ trace[a].e = "call" /\ trace[a].ci = 1
        /\ \E b \in (a + 1)..Len(trace) : \E c \in (b + 1)..Len(trace) :
              \E d \in (c + 1)..Len(trace) :
                 /\ trace[b] = [trace[a] EXCEPT !.e = "fail"]
                 /\ trace[c] = [trace[a] EXCEPT !.e = "redo", !.ci = 2]
                 /\ trace[d] = [trace[a] EXCEPT !.e = "fail", !.ci = 2]

-----------------------------------------------------------------------------
(***************************************************************************)
(* Solutions: the host calls Close and Next one after the other; a         *)
(* goroutine runs the search, takes the requests from s.more and hands the *)
(* environments over on s.next.                                            *)
(***************************************************************************)
\* host calls in one behaviour
MaxCalls == 4
\* solutions a query can have
MaxSols == 2
\* capacity of the channel s.more
MoreCap == 1

\* no VM runs
VMIdle ==
    /\ procedures = Builtins
    /\ unknown = "error"
    /\ warnings = <<>>
    /\ refs = [i \in 1..(MaxVars + 1) |-> Nil]
    /\ nvars = 1
    /\ invs = <<>>
    /\ stack = <<>>
    /\ result = NoResult
    /\ trace = <<>>
    /\ solutions = <<>>
    /\ phase = "none"
    /\ goal = Nil
    /\ asserted = <<>>
    /\ assertErr = ""

\* what the calls of one kind leave alone, and the states in which only the
\* calls of that kind have happened
notWrite == <<vmVars, solVars, termVars, loopVars, listVars, seqVars, altVars,
              univVars, functorVars, opVars, intVars, parseVars, curVars,
              offVars>>

OnlyWrite ==
    /\ VMIdle
    /\ SolIdle
    /\ TermIdle
    /\ LoopIdle
    /\ ListIdle
    /\ SeqIdle
    /\ AltIdle
    /\ UnivIdle
    /\ FunctorIdle
    /\ OpIdle
    /\ IntIdle
    /\ ParseIdle
    /\ CurIdle
    /\ OffIdle

notLoop == <<vmVars, solVars, termVars, writeVars, listVars, seqVars, altVars,
             univVars, functorVars, opVars, intVars, parseVars, curVars,
             offVars>>

OnlyLoop ==
    /\ VMIdle
    /\ SolIdle
    /\ TermIdle
    /\ WriteIdle
    /\ ListIdle
    /\ SeqIdle
    /\ AltIdle
    /\ UnivIdle
    /\ FunctorIdle
    /\ OpIdle
    /\ IntIdle
    /\ ParseIdle
    /\ CurIdle
    /\ OffIdle

notList == <<vmVars, solVars, termVars, writeVars, loopVars, seqVars, altVars,
             univVars, functorVars, opVars, intVars, parseVars, curVars,
             offVars>>

OnlyList ==
    /\ VMIdle
    /\ SolIdle
    /\ TermIdle
    /\ WriteIdle
    /\ LoopIdle
    /\ SeqIdle
    /\ AltIdle
    /\ UnivIdle
    /\ FunctorIdle
    /\ OpIdle
    /\ IntIdle
    /\ ParseIdle
    /\ CurIdle
    /\ OffIdle

notSeq == <<vmVars, solVars, termVars, writeVars, loopVars, listVars, altVars,
            univVars, functorVars, opVars, intVars, parseVars, curVars,
            offVars>>

OnlySeq ==
    /\ VMIdle
    /\ SolIdle
    /\ TermIdle
    /\ WriteIdle
    /\ LoopIdle
    /\ ListIdle
    /\ AltIdle
    /\ UnivIdle
    /\ FunctorIdle
    /\ OpIdle
    /\ IntIdle
    /\ ParseIdle
    /\ CurIdle
    /\ OffIdle

notAlt == <<vmVars, solVars, termVars, writeVars, loopVars, listVars, seqVars,
            univVars, functorVars, opVars, intVars, parseVars, curVars,
            offVars>>

OnlyAlt ==
    /\ VMIdle
    /\ SolIdle
    /\ TermIdle
    /\ WriteIdle
    /\ LoopIdle
    /\ ListIdle
    /\ SeqIdle
    /\ UnivIdle
    /\ FunctorIdle
    /\ OpIdle
    /\ IntIdle
    /\ ParseIdle
    /\ CurIdle
    /\ OffIdle

notUniv == <<vmVars, solVars, termVars, writeVars, loopVars, listVars, seqVars,
             altVars, functorVars, opVars, intVars, parseVars, curVars,
             offVars>>

OnlyUniv ==
    /\ VMIdle
    /\ SolIdle
    /\ TermIdle
    /\ WriteIdle
    /\ LoopIdle
    /\ ListIdle
    /\ SeqIdle
    /\ AltIdle
    /\ FunctorIdle
    /\ OpIdle
    /\ IntIdle
    /\ ParseIdle
    /\ CurIdle
    /\ OffIdle

notFunctor == <<vmVars, solVars, termVars, writeVars, loopVars, listVars,
                seqVars, altVars, univVars, opVars, intVars, parseVars,
                curVars, offVars>>

OnlyFunctor ==
    /\ VMIdle
    /\ SolIdle
    /\ TermIdle
    /\ WriteIdle
    /\ LoopIdle
    /\ ListIdle
    /\ SeqIdle
    /\ AltIdle
    /\ UnivIdle
    /\ OpIdle
    /\ IntIdle
    /\ ParseIdle
    /\ CurIdle
    /\ OffIdle

notOp == <<vmVars, solVars, termVars, writeVars, loopVars, listVars, seqVars,
           altVars, univVars, functorVars, intVars, parseVars, curVars,
           offVars>>

OnlyOp ==
    /\ VMIdle
    /\ SolIdle
    /\ TermIdle
    /\ WriteIdle
    /\ LoopIdle
    /\ ListIdle
    /\ SeqIdle
    /\ AltIdle
    /\ UnivIdle
    /\ FunctorIdle
    /\ IntIdle
    /\ ParseIdle
    /\ CurIdle
    /\ OffIdle

notInt == <<vmVars, solVars, termVars, writeVars, loopVars, listVars, seqVars,
            altVars, univVars, functorVars, opVars, parseVars, curVars,
            offVars>>

OnlyInt ==
    /\ VMIdle
    /\ SolIdle
    /\ TermIdle
    /\ WriteIdle
    /\ LoopIdle
    /\ ListIdle
    /\ SeqIdle
    /\ AltIdle
    /\ UnivIdle
    /\ FunctorIdle
    /\ OpIdle
    /\ ParseIdle
    /\ CurIdle
    /\ OffIdle

notParse == <<vmVars, solVars, termVars, writeVars, loopVars, listVars,
              seqVars, altVars, univVars, functorVars, opVars, intVars,
              curVars, offVars>>

OnlyParse ==
    /\ VMIdle
    /\ SolIdle
    /\ TermIdle
    /\ WriteIdle
    /\ LoopIdle
    /\ ListIdle
    /\ SeqIdle
    /\ AltIdle
    /\ UnivIdle
    /\ FunctorIdle
    /\ OpIdle
    /\ IntIdle
    /\ CurIdle
    /\ OffIdle

notCur == <<vmVars, solVars, termVars, writeVars, loopVars, listVars, seqVars,
            altVars, univVars, functorVars, opVars, intVars, parseVars,
            offVars>>

OnlyCur ==
    /\ VMIdle
    /\ SolIdle
    /\ TermIdle
    /\ WriteIdle
    /\ LoopIdle
    /\ ListIdle
    /\ SeqIdle
    /\ AltIdle
    /\ UnivIdle
    /\ FunctorIdle
    /\ OpIdle
    /\ IntIdle
    /\ ParseIdle
    /\ OffIdle

notOff == <<vmVars, solVars, termVars, writeVars, loopVars, listVars, seqVars,
            altVars, univVars, functorVars, opVars, intVars, parseVars,
            curVars>>

OnlyOff ==
    /\ VMIdle
    /\ SolIdle
    /\ TermIdle
    /\ WriteIdle
    /\ LoopIdle
    /\ ListIdle
    /\ SeqIdle
    /\ AltIdle
    /\ UnivIdle
    /\ FunctorIdle
    /\ OpIdle
    /\ IntIdle
    /\ ParseIdle
    /\ CurIdle

\* a call of the host has returned
Returned(op, ret, ops, closes) ==
    Append(calls, [op |-> op, ret |-> ret, ops |-> ops, closes |-> closes])

\* Solutions.Close without the test of s.closed
SolutionsCloseUntested ==
    /\ cpc = "idle" /\ Len(calls) < MaxCalls
    /\ more' = [more EXCEPT !.open = FALSE]
    /\ moreCloses' = moreCloses + 1
    /\ panicked' = (panicked \/ ~more.open)
    /\ closed' = TRUE
    /\ calls' = Returned("Close", "nil", chanOps, moreCloses + 1)
    /\ UNCHANGED <<next, offer, cpc, ppc, left, chanOps, notSol>>

\* Solutions.Close
SolutionsClose ==
    /\ cpc = "idle" /\ Len(calls) < MaxCalls
    /\ IF closed
       THEN /\ calls' = Returned("Close", "ErrClosed", chanOps, moreCloses)
            /\ UNCHANGED <<closed, more, moreCloses, panicked>>
       ELSE /\ more' = [more EXCEPT !.open = FALSE]
            /\ moreCloses' = moreCloses + 1
            /\ panicked' = (panicked \/ ~more.open)
            /\ closed' = TRUE
            /\ calls' = Returned("Close", "nil", chanOps, moreCloses + 1)
    /\ UNCHANGED <<next, offer, cpc, ppc, left, chanOps, notSol>>

\* Solutions.Next without the test of s.closed
SolutionsNextUntested ==
    /\ cpc = "idle" /\ Len(calls) < MaxCalls
    /\ cpc' = "send"
    /\ UNCHANGED <<closed, more, moreCloses, next, offer, ppc, left, calls, chanOps,
                   panicked, notSol>>

\* Solutions.Next up to the send: the test of s.closed
SolutionsNext ==
    /\ cpc = "idle" /\ Len(calls) < MaxCalls
    /\ IF closed
       THEN /\ calls' = Returned("Next", "false", chanOps, moreCloses)
            /\ UNCHANGED cpc
       ELSE /\ cpc' = "send"
            /\ UNCHANGED calls
    /\ UNCHANGED <<closed, more, moreCloses, next, offer, ppc, left, chanOps, panicked,
                   notSol>>

\* s.more <- true
NextSend ==
    /\ cpc = "send"
    /\ IF ~more.open
       THEN /\ panicked' = TRUE
            /\ cpc' = "panic"
            /\ UNCHANGED <<more, chanOps>>
       ELSE /\ Len(more.buf) < MoreCap
            /\ more' = [more EXCEPT !.buf = Append(@, TRUE)]
            /\ chanOps' = chanOps + 1
            /\ cpc' = "recv"
            /\ UNCHANGED panicked
    /\ UNCHANGED <<closed, moreCloses, next, offer, ppc, left, calls, notSol>>

\* s.env, ok = <-s.next; return ok
NextReceive ==
    /\ cpc = "recv"
    /\ \/ /\ offer
          /\ offer' = FALSE
          /\ ppc' = "ask"
          /\ calls' = Returned("Next", "true", chanOps + 1, moreCloses)
       \/ /\ ~offer /\ ~next.open
          /\ calls' = Returned("Next", "false", chanOps + 1, moreCloses)
          /\ UNCHANGED <<offer, ppc>>
    /\ chanOps' = chanOps + 1
    /\ cpc' = "idle"
    /\ UNCHANGED <<closed, more, moreCloses, next, left, panicked, notSol>>

\* the goroutine's "<-more": a buffered value, or false from the closed channel.
\* Before the search a false ends the goroutine; after a solution the
\* continuation returns Bool(!<-more).
SearchReceive ==
    /\ ppc \in {"first", "ask"}
    /\ \/ /\ more.buf # <<>>
          /\ more' = [more EXCEPT !.buf = Tail(@)]
          /\ ppc' = IF Head(more.buf) THEN "search" ELSE "exit"
       \/ /\ more.buf = <<>> /\ ~more.open
          /\ ppc' = "exit"
          /\ UNCHANGED more
    /\ UNCHANGED <<closed, moreCloses, next, offer, cpc, left, calls, chanOps, panicked,
                   notSol>>

\* Force runs to the next solution, "next <- env", or to the end of the search
SearchStep ==
    /\ ppc = "search"
    /\ IF left > 0
       THEN /\ left' = left - 1
            /\ offer' = TRUE
            /\ ppc' = "send"
       ELSE /\ ppc' = "exit"
            /\ UNCHANGED <<left, offer>>
    /\ UNCHANGED <<closed, more, moreCloses, next, cpc, calls, chanOps, panicked, notSol>>

\* defer close(next)
SearchExit ==
    /\ ppc = "exit"
    /\ next' = [next EXCEPT !.open = FALSE]
    /\ ppc' = "done"
    /\ UNCHANGED <<closed, more, moreCloses, offer, cpc, left, calls, chanOps, panicked,
                   notSol>>

\* the state Query returns a Solutions value in
SolInit ==
    /\ VMIdle
    /\ TermIdle
    /\ PureIdle
    /\ closed = FALSE
    /\ more = [open |-> TRUE, buf |-> <<>>]
    /\ moreCloses = 0
    /\ next = [open |-> TRUE, buf |-> <<>>]
    /\ offer = FALSE
    /\ cpc = "idle"
    /\ ppc = "first"
    /\ left \in 0..MaxSols
    /\ calls = <<>>
    /\ chanOps = 0
    /\ panicked = FALSE

SolNext ==
    \/ SolutionsClose
    \/ SolutionsNext
    \/ NextSend
    \/ NextReceive
    \/ SearchReceive
    \/ SearchStep
    \/ SearchExit

SpecSol == SolInit /\ [][SolNext]_vars

\* C5: once a Close has returned, every Next returns false without a channel
\* operation: it never gets past the test of s.closed.
C5_NoNextAfterClose ==
    /\ \A i \in 1..Len(calls) : \A j \in (i + 1)..Len(calls) :
          (calls[i].op = "Close" /\ calls[j].op = "Next")
              => calls[j].ret = "false" /\ calls[j].ops = calls[j - 1].ops
    /\ closed => cpc = "idle"

C5_Witness ==
    /\ Len(calls) = 3
    /\ calls[1].op = "Next" /\ calls[1].ret = "true"
    /\ calls[2].op = "Close"
    /\ calls[3].op = "Next" /\ calls[3].ret = "false"

\* C6: the first Close returns nil and closes s.more, every later Close
\* returns ErrClosed and closes nothing; s.more is closed at most once.
C6_CloseOnce ==
    /\ \A j \in 1..Len(calls) :
          calls[j].op = "Close"
              => IF \E i \in 1..(j - 1) : calls[i].op = "Close"
                 THEN calls[j].ret = "ErrClosed" /\ calls[j].closes = 1
                 ELSE calls[j].ret = "nil" /\ calls[j].closes = 1
    /\ moreCloses <= 1
    /\ moreCloses = 1 <=> ~more.open
    /\ ~panicked

C6_Witness ==
    /\ Len(calls) >= 3
    /\ calls[1].op = "Close" /\ calls[1].ret = "nil"
    /\ calls[2].op = "Next"
    /\ calls[3].op = "Close" /\ calls[3].ret = "ErrClosed"

\* a goroutine that can take its next step takes it: the host inside Next,
\* the goroutine that searches.  When the host calls Close or Next is up to
\* the host.
SpecSolFair ==
    /\ SpecSol
    /\ WF_vars(NextSend)
    /\ WF_vars(NextReceive)
    /\ WF_vars(SearchReceive)
    /\ WF_vars(SearchStep)
    /\ WF_vars(SearchExit)

\* the host is inside a call of Next
InNext == cpc # "idle"

\* the first Close of the host returned nil
FirstCloseNil ==
    \A j \in 1..Len(calls) :
        (calls[j].op = "Close" /\ \A i \in 1..(j - 1) : calls[i].op # "Close")
            => calls[j].ret = "nil"

\* C40: every call of Next returns, also a call made after Next has returned
\* false because the goroutine closed s.next; and a Close after it returns
\* nil.
C40_NextReturns == []FirstCloseNil /\ (InNext ~> ~InNext)

\* the search has ended and closed s.next, two calls of Next have returned
\* false, s.more holds the request of the second, and the third Next stands
\* in its send with nobody left to receive
C40_Blocked ==
    /\ cpc = "send"
    /\ ppc = "done"
    /\ more.open /\ Len(more.buf) = MoreCap
    /\ Len(calls) = 2
    /\ calls[1].op = "Next" /\ calls[1].ret = "false"
    /\ calls[2].op = "Next" /\ calls[2].ret = "false"

\* the call of Next right after the one that found the search ended returns
\* false, and a Close after it returns nil
C40_OneMoreNext ==
    /\ Len(calls) = 3
    /\ calls[1].op = "Next" /\ calls[1].ret = "false"
    /\ calls[2].op = "Next" /\ calls[2].ret = "false"
    /\ calls[3].op = "Close" /\ calls[3].ret = "nil"

-----------------------------------------------------------------------------
(***************************************************************************)
(* One call c.Unify(t, occursCheck, env).                                  *)
(***************************************************************************)
\* arguments a compound has at most
MaxArity == 2

\* the sequences over S of length 1..n
Seqs(S, n) == UNION {[1..m -> S] : m \in 1..n}

UnifyArgTerms ==
    {Atom("a"), Variable("X"), Variable("Y"), Compound("f", <<Variable("X")>>)}

UnifyCompounds(fs) == {Compound(f, as) : f \in fs, as \in Seqs(UnifyArgTerms, MaxArity)}

UnifyTerms ==
    {Atom("a"), Atom("f"), Integer(1), Variable("X"), Variable("Y")}
        \cup UnifyCompounds({"f", "g"})

UnifyEnvs ==
    {NewEnv,
     Bind(NewEnv, Variable("X"), Variable("Y")),
     Bind(NewEnv, Variable("Y"), Compound("f", <<Atom("a")>>)),
     Bind(NewEnv, Variable("Y"), Compound("f", <<Atom("b")>>)),
     Bind(Bind(NewEnv, Variable("X"), Atom("a")),
          Variable("Y"), Compound("f", <<Variable("X")>>))}

UnifyCall ==
    /\ ~unified.done
    /\ LET u == CompoundUnify(uniC, uniT, uniOccurs, uniEnv, MaxDepth)
       IN  unified' = [done |-> TRUE, ok |-> u.ok, env |-> u.env, err |-> u.err]
    /\ UNCHANGED <<uniC, uniT, uniOccurs, uniEnv, setTs, setOut, vmVars, solVars,
                   pureVars>>

UnifyInit ==
    /\ VMIdle
    /\ SolIdle
    /\ PureIdle
    /\ uniC \in UnifyCompounds({"f"})
    /\ uniT \in UnifyTerms
    /\ uniOccurs \in BOOLEAN
    /\ uniEnv \in UnifyEnvs
    /\ unified = [done |-> FALSE, ok |-> FALSE, env |-> NewEnv, err |-> ""]
    /\ setTs = <<>>
    /\ setOut = [done |-> FALSE, list |-> Nil]

UnifyNext == UnifyCall

SpecUnify == UnifyInit /\ [][UnifyNext]_vars

\* the arguments from index i on unify pairwise, each in the environment the
\* one before it left
RECURSIVE Pairwise(_, _, _, _, _)
Pairwise(as, bs, i, occursCheck, env) ==
    IF i > Len(as)
    THEN [ok |-> TRUE, env |-> env]
    ELSE LET u == TermUnify(as[i], bs[i], occursCheck, env, MaxDepth - 1)
         IN  IF u.ok
             THEN Pairwise(as, bs, i + 1, occursCheck, u.env)
             ELSE [ok |-> FALSE, env |-> u.env]

\* what t resolves to
UniR == EnvResolve(uniT, uniEnv)

UniFree == UniR.k = "var"

UniSame == UniR.k = "cmp" /\ UniR.n = uniC.n /\ Len(UniR.args) = Len(uniC.args)

UniArgs ==
    IF UniSame
    THEN Pairwise(uniC.args, UniR.args, 1, uniOccurs, uniEnv)
    ELSE [ok |-> FALSE, env |-> uniEnv]

\* C9 as stated: Compound.Unify succeeds iff t resolves to an unbound variable
\* or to a compound of the same functor and arity whose arguments unify
\* pairwise.
C9_AsStated ==
    unified.done => (unified.ok <=> (UniFree \/ UniArgs.ok))

\* C9: Compound.Unify succeeds iff t resolves to an unbound variable that,
\* under occursCheck, does not occur in the compound (the variable is then
\* bound to the compound), or to a compound of the same functor and arity
\* whose arguments unify pairwise from left to right, each in the environment
\* the one before it left; against an atom, a number or a compound of another
\* functor or arity it returns ok = false, the environment as it was, and no
\* error.
C9_CompoundUnify ==
    unified.done =>
        /\ unified.ok <=> \/ UniFree /\ ~(uniOccurs /\ Contains(uniC, UniR, uniEnv))
                          \/ UniArgs.ok
        /\ (UniFree /\ unified.ok) => unified.env = Bind(uniEnv, UniR, uniC)
        /\ (UniSame /\ unified.ok) => unified.env = UniArgs.env
        /\ (~UniFree /\ ~UniSame)
              => ~unified.ok /\ unified.err = "" /\ unified.env = uniEnv

\* f(X, Y) against f(a, f(X)): the second argument is unified in the
\* environment the first one left
C9_Witness ==
    /\ unified.done /\ unified.ok
    /\ uniEnv = NewEnv
    /\ uniC = Compound("f", <<Variable("X"), Variable("Y")>>)
    /\ uniT = Compound("f", <<Atom("a"), Compound("f", <<Variable("X")>>)>>)
    /\ unified.env = Bind(Bind(NewEnv, Variable("X"), Atom("a")),
                          Variable("Y"), Compound("f", <<Variable("X")>>))

-----------------------------------------------------------------------------
(***************************************************************************)
(* One call Set(ts...).                                                    *)
(***************************************************************************)
\* arguments of one call of Set
MaxLen == 3

SetTerms ==
    {Variable("X"), Float(1), Integer(1), Integer(2), Atom("a"), Atom("b"),
     Compound("f", <<Atom("a")>>)}

SetCall ==
    /\ ~setOut.done
    /\ setOut' = [done |-> TRUE, list |-> Set(setTs)]
    /\ UNCHANGED <<uniC, uniT, uniOccurs, uniEnv, unified, setTs, vmVars, solVars,
                   pureVars>>

SetInit ==
    /\ VMIdle
    /\ SolIdle
    /\ PureIdle
    /\ uniC = Nil
    /\ uniT = Nil
    /\ uniOccurs = FALSE
    /\ uniEnv = NewEnv
    /\ unified = [done |-> FALSE, ok |-> FALSE, env |-> NewEnv, err |-> ""]
    /\ setTs \in {<<>>} \cup Seqs(SetTerms, MaxLen)
    /\ setOut = [done |-> FALSE, list |-> Nil]

SetNext == SetCall

SpecSet == SetInit /\ [][SetNext]_vars

RECURSIVE IsList(_)
IsList(t) ==
    \/ t = Atom("[]")
    \/ t.k = "cmp" /\ t.n = "." /\ Len(t.args) = 2 /\ IsList(t.args[2])

\* the elements of a proper list
RECURSIVE Elems(_)
Elems(t) == IF t = Atom("[]") THEN <<>> ELSE <<t.args[1]>> \o Elems(t.args[2])

\* C10: Set(ts...) is a proper list, strictly ascending in the standard order
\* of terms, whose elements are exactly the distinct elements of ts; Set() is
\* the empty list.
C10_SetSortedDistinct ==
    setOut.done =>
        /\ IsList(setOut.list)
        /\ LET es == Elems(setOut.list)
           IN  /\ \A i \in 1..(Len(es) - 1) : compare(es[i], es[i + 1]) < 0
               /\ {es[i] : i \in 1..Len(es)} = {setTs[i] : i \in 1..Len(setTs)}
        /\ setTs = <<>> => setOut.list = Atom("[]")

\* Set(b, a, b) = [a, b]
C10_Witness ==
    /\ setOut.done
    /\ setTs = <<Atom("b"), Atom("a"), Atom("b")>>
    /\ setOut.list = List(<<Atom("a"), Atom("b")>>)

-----------------------------------------------------------------------------
(***************************************************************************)
(* Compound.Unparse: the tokens a term is written as.                      *)
(***************************************************************************)
\* deepest nesting, and longest list, of a term handed to Unparse
MaxUnparse == 12

Token(kind, val) == [Kind |-> kind, Val |-> val]

Operator(priority, specifier, name) ==
    [Priority |-> priority, Specifier |-> specifier, Name |-> name]

WriteTermOptions(ops, priority, numberVars) ==
    [Ops |-> ops, Priority |-> priority, NumberVars |-> numberVars]

\* what a call of Unparse did: the tokens it emitted, whether it panicked,
\* whether it was still running when the model cut it off
Emitted(toks) == [toks |-> toks, panic |-> FALSE, over |-> FALSE]

emit(kind, val) == Emitted(<<Token(kind, val)>>)

Panic == [toks |-> <<>>, panic |-> TRUE, over |-> FALSE]

Cutoff == [toks |-> <<>>, panic |-> FALSE, over |-> TRUE]

\* r1 and, unless it did not return, r2 after it
Then(r1, r2) ==
    IF r1.panic \/ r1.over
    THEN r1
    ELSE [toks |-> r1.toks \o r2.toks, panic |-> r2.panic, over |-> r2.over]

Digits == <<"0", "1", "2", "3", "4", "5", "6", "7", "8", "9">>

\* the decimal digits of n >= 0
RECURSIVE Itoa(_)
Itoa(n) == IF n < 10 THEN Digits[n + 1] ELSE Itoa(n \div 10) \o Digits[(n % 10) + 1]

\* fmt.Sprintf("%d", n)
Sprintd(n) == IF n < 0 THEN "-" \o Itoa(-n) ELSE Itoa(n)

\* Go's n % m and n / m on int, m > 0: the quotient truncates toward zero
GoRem(n, m) == IF n < 0 THEN -((-n) % m) ELSE n % m

GoQuo(n, m) == IF n < 0 THEN -((-n) \div m) ELSE n \div m

letters == <<"A", "B", "C", "D", "E", "F", "G", "H", "I", "J", "K", "L", "M",
             "N", "O", "P", "Q", "R", "S", "T", "U", "V", "W", "X", "Y", "Z">>

GraphicAtoms == {"+", "-", "*", "=", "->", ":-"}

AtomUnparse(a) ==
    IF a.n \in GraphicAtoms THEN emit("graphic", a.n) ELSE emit("ident", a.n)

IntegerUnparse(i) ==
    IF i.v < 0
    THEN Then(emit("sign", "-"), emit("integer", Itoa(-i.v)))
    ELSE emit("integer", Itoa(i.v))

VariableUnparse(v) == emit("variable", v.n)

\* index of the first operator of the table named name whose specifier is one
\* of specifiers, 0 when there is none
RECURSIVE FirstOp(_, _, _, _)
FirstOp(ops, name, specifiers, i) ==
    IF i > Len(ops)
    THEN 0
    ELSE IF ops[i].Name = name /\ ops[i].Specifier \in specifiers
         THEN i
         ELSE FirstOp(ops, name, specifiers, i + 1)

\* the parentheses Unparse puts around what an operator is written as
ParenAlways(op, opts, r) ==
    Then(emit("parenL", "("), Then(r, emit("parenR", ")")))

Paren(op, opts, r) ==
    IF op.Priority > opts.Priority
    THEN Then(emit("parenL", "("), Then(r, emit("parenR", ")")))
    ELSE r

RECURSIVE Unparse(_, _, _, _)
RECURSIVE TermUnparse(_, _, _, _)
RECURSIVE unparseTail(_, _, _, _)
RECURSIVE unparseArgs(_, _, _, _, _)

\* Term.Unparse of a resolved term
TermUnparse(t, opts, env, d) ==
    CASE t.k = "cmp" -> Unparse(t, opts, env, d)
      [] t.k = "int" -> IntegerUnparse(t)
      [] t.k = "var" -> VariableUnparse(t)
      [] OTHER -> AtomUnparse(t)

\* the loop over the tail of a list
unparseTail(t, opts, env, d) ==
    IF d = 0
    THEN Cutoff
    ELSE IF t.k = "cmp" /\ t.n = "." /\ Len(t.args) = 2
         THEN Then(emit("comma", ","),
              Then(TermUnparse(EnvResolve(t.args[1], env), opts, env, d - 1),
                   unparseTail(EnvResolve(t.args[2], env), opts, env, d - 1)))
         ELSE IF t = Atom("[]")
              THEN Emitted(<<>>)
              ELSE Then(emit("bar", "|"), TermUnparse(t, opts, env, d - 1))

\* the arguments of functional notation from the i-th on
unparseArgs(c, i, opts, env, d) ==
    IF i > Len(c.args)
    THEN Emitted(<<>>)
    ELSE Then(emit("comma", ","),
         Then(TermUnparse(EnvResolve(c.args[i], env), opts, env, d - 1),
              unparseArgs(c, i + 1, opts, env, d)))

Unparse(c, opts, env, d) ==
    IF d = 0
    THEN Cutoff
    ELSE
    LET arg(i, o) == TermUnparse(EnvResolve(c.args[i], env), o, env, d - 1)
        functor == AtomUnparse(Atom(c.n))
        pre == FirstOp(opts.Ops, c.n, {"fx", "fy"}, 1)
        post == FirstOp(opts.Ops, c.n, {"xf", "yf"}, 1)
        un == FirstOp(opts.Ops, c.n, {"fx", "fy", "xf", "yf"}, 1)
        bin == FirstOp(opts.Ops, c.n, {"xfx", "xfy", "yfx"}, 1)
        under(op) == [opts EXCEPT !.Priority = op.Priority]
        numbered ==
            LET n == EnvResolve(c.args[1], env)
                i == GoRem(n.v, Len(letters))
                j == GoQuo(n.v, Len(letters))
            IN  IF i < 0
                THEN Panic
                ELSE IF j = 0
                     THEN emit("variable", letters[i + 1])
                     ELSE emit("variable", letters[i + 1] \o Sprintd(j))
        functional ==
            Then(functor,
            Then(emit("parenL", "("),
            Then(arg(1, opts),
            Then(unparseArgs(c, 2, opts, env, d),
                 emit("parenR", ")")))))
    IN  IF c.n = "." /\ Len(c.args) = 2
        THEN Then(emit("bracketL", "["),
             Then(arg(1, opts),
             Then(unparseTail(EnvResolve(c.args[2], env), opts, env, d - 1),
                  emit("bracketR", "]"))))
        ELSE IF c.n = "{}" /\ Len(c.args) = 1
        THEN Then(emit("braceL", "{"), Then(arg(1, opts), emit("braceR", "}")))
        ELSE IF Len(c.args) = 1 /\ un # 0 /\ un = pre
        THEN LET op == opts.Ops[un]
             IN  Paren(op, opts, Then(functor, arg(1, under(op))))
        ELSE IF Len(c.args) = 1 /\ un # 0 /\ un = post
        THEN LET op == opts.Ops[un]
             IN  Paren(op, opts, Then(arg(1, under(op)), functor))
        ELSE IF Len(c.args) = 2 /\ bin # 0
        THEN LET op == opts.Ops[bin]
             IN  Paren(op, opts,
                       Then(arg(1, under(op)), Then(functor, arg(2, under(op)))))
        ELSE IF /\ opts.NumberVars
                /\ c.n = "$VAR"
                /\ Len(c.args) = 1
                /\ EnvResolve(c.args[1], env).k = "int"
        THEN numbered
        ELSE functional

-----------------------------------------------------------------------------
(***************************************************************************)
(* Parser.Term: the term a token stream is read as.  The parser reads the  *)
(* tokens toks from position pos on; next() moves the position forward by  *)
(* one, backup() moves it back by one.                                     *)
(***************************************************************************)
\* the text the writer makes of the tokens of Unparse, as the lexer reads it
\* again, followed by the end token
RECURSIVE Relex(_, _)
Relex(toks, i) ==
    IF i > Len(toks)
    THEN <<Token("end", ".")>>
    ELSE LET t == toks[i]
             kind ==
                CASE t.Kind = "ident" -> "letterDigit"
                  [] t.Kind \in {"graphic", "sign"} -> "graphic"
                  [] t.Kind = "parenL" ->
                        IF i > 1 /\ toks[i - 1].Kind \in {"ident", "graphic"}
                        THEN "openCT"
                        ELSE "open"
                  [] t.Kind = "parenR" -> "close"
                  [] t.Kind = "bracketL" -> "openList"
                  [] t.Kind = "bracketR" -> "closeList"
                  [] t.Kind = "braceL" -> "openCurly"
                  [] t.Kind = "braceR" -> "closeCurly"
                  [] OTHER -> t.Kind
         IN  <<Token(kind, t.Val)>> \o Relex(toks, i + 1)

\* what a parsing method returns, and the position it leaves the parser at
R(err, val, pos) == [err |-> err, val |-> val, pos |-> pos]

\* p.next() at position pos
nextToken(toks, pos) == IF pos \in 1..Len(toks) THEN toks[pos] ELSE Token("EOF", "")

HexDigits ==
    <<"0", "1", "2", "3", "4", "5", "6", "7", "8", "9", "a", "b", "c", "d", "e", "f">>

DigitVal(ch) == (CHOOSE i \in 1..Len(HexDigits) : HexDigits[i] = ch) - 1

(***************************************************************************)
(* Numbers beyond the range of the checker's integers are sequences of     *)
(* limbs in base 10000, least significant limb first, without leading      *)
(* zero limbs; the empty sequence is zero.                                 *)
(***************************************************************************)
Big2p63 == <<5808, 5477, 368, 3372, 922>>

Big2p64 == <<1616, 955, 737, 6744, 1844>>

\* x * m + a
RECURSIVE BigMulAdd(_, _, _)
BigMulAdd(x, m, a) ==
    IF x = <<>>
    THEN IF a = 0 THEN <<>> ELSE <<a % 10000>> \o BigMulAdd(<<>>, m, a \div 10000)
    ELSE <<(Head(x) * m + a) % 10000>>
            \o BigMulAdd(Tail(x), m, (Head(x) * m + a) \div 10000)

\* x mod d
RECURSIVE BigRem(_, _)
BigRem(x, d) ==
    IF x = <<>> THEN 0 ELSE (Head(x) + 10000 * BigRem(Tail(x), d)) % d

BigNorm(x) ==
    IF x # <<>> /\ x[Len(x)] = 0 THEN SubSeq(x, 1, Len(x) - 1) ELSE x

\* x div d, for d up to 16
BigQuo(x, d) ==
    BigNorm([i \in 1..Len(x) |->
                (BigRem(SubSeq(x, i + 1, Len(x)), d) * 10000 + x[i]) \div d])

BigLess(x, y) ==
    IF Len(x) # Len(y)
    THEN Len(x) < Len(y)
    ELSE \E i \in 1..Len(x) :
            /\ x[i] < y[i]
            /\ \A j \in (i + 1)..Len(x) : x[j] = y[j]

\* the value of a string of at most four digits of the base
RECURSIVE smallValue(_, _)
smallValue(s, base) ==
    IF Len(s) = 0
    THEN 0
    ELSE smallValue(SubSeq(s, 1, Len(s) - 1), base) * base
            + DigitVal(SubSeq(s, Len(s), Len(s)))

\* the value of a string of digits of the base, four digits at a time
RECURSIVE digitsValue(_, _)
digitsValue(s, base) ==
    IF Len(s) <= 4
    THEN BigMulAdd(<<>>, 1, smallValue(s, base))
    ELSE BigMulAdd(digitsValue(SubSeq(s, 1, Len(s) - 4), base),
                   base * base * base * base,
                   smallValue(SubSeq(s, Len(s) - 3, Len(s)), base))

\* a big.Float of precision 64 and rounding mode ToZero holds x cut to its 64
\* most significant bits
RECURSIVE roundToZero(_)
roundToZero(x) ==
    IF BigLess(x, Big2p64) THEN x ELSE BigMulAdd(roundToZero(BigQuo(x, 2)), 2, 0)

\* big.ParseFloat(s, base, 0, big.ToZero) of a string of digits
ParseFloat(s, base) == roundToZero(digitsValue(s, base))

HasPrefix(s, prefix) == Len(s) >= Len(prefix) /\ SubSeq(s, 1, Len(prefix)) = prefix

\* the code points of the characters the literals of the model quote
RuneOf(ch) == CASE ch = "a" -> 97 [] ch = "A" -> 65 [] ch = "0" -> 48

\* an Integer of the sign and the magnitude mag
Int64(neg, mag) == [err |-> "", neg |-> neg /\ mag # <<>>, mag |-> mag]

RepresentationError(flag) ==
    [err |-> "representation_error(" \o flag \o ")", neg |-> FALSE, mag |-> <<>>]

\* int64 with math.MaxInt64 taken one too high
int64OffByOne(neg, f) ==
    IF BigLess(Big2p63, f)
    THEN RepresentationError(IF neg THEN "min_integer" ELSE "max_integer")
    ELSE Int64(neg, f)

\* f.Int64() of the float of magnitude f, negative when neg, and the switch
\* over its accuracy
int64(neg, f) ==
    IF neg /\ BigLess(Big2p63, f)
    THEN RepresentationError("min_integer")
    ELSE IF ~neg /\ ~BigLess(f, Big2p63)
         THEN RepresentationError("max_integer")
         ELSE Int64(neg, f)

\* parseInteger with sign 1 or -1
parseInteger(sign, s) ==
    CASE HasPrefix(s, "0'") ->
            Int64(sign < 0, <<RuneOf(SubSeq(s, 3, 3))>>)
      [] HasPrefix(s, "0b") -> int64(sign < 0, ParseFloat(SubSeq(s, 3, Len(s)), 2))
      [] HasPrefix(s, "0o") -> int64(sign < 0, ParseFloat(SubSeq(s, 3, Len(s)), 8))
      [] HasPrefix(s, "0x") -> int64(sign < 0, ParseFloat(SubSeq(s, 3, Len(s)), 16))
      [] OTHER -> int64(sign < 0, ParseFloat(s, 10))

\* the Integer term of a result of parseInteger; the terms of the model hold
\* integers below 10^8
IntegerTerm(r) ==
    Integer((IF r.neg THEN -1 ELSE 1)
                * ((IF Len(r.mag) >= 1 THEN r.mag[1] ELSE 0)
                     + (IF Len(r.mag) >= 2 THEN 10000 * r.mag[2] ELSE 0)))

RECURSIVE ListRest(_, _)
ListRest(rest, ts) ==
    IF ts = <<>> THEN rest ELSE Compound(".", <<Head(ts), ListRest(rest, Tail(ts))>>)

bindingPriorities(o) ==
    CASE o.Specifier = "fx" -> <<1202, o.Priority - 1>>
      [] o.Specifier = "fy" -> <<1202, o.Priority>>
      [] o.Specifier = "xf" -> <<o.Priority - 1, 1202>>
      [] o.Specifier = "yf" -> <<o.Priority, 1202>>
      [] o.Specifier = "xfx" -> <<o.Priority - 1, o.Priority - 1>>
      [] o.Specifier = "xfy" -> <<o.Priority - 1, o.Priority>>
      [] o.Specifier = "yfx" -> <<o.Priority, o.Priority - 1>>
      [] OTHER -> <<1202, 1202>>

name(toks, pos) ==
    LET t == nextToken(toks, pos)
    IN  IF t.Kind \in {"letterDigit", "graphic", "semicolon", "cut"}
        THEN R("", t.Val, pos + 1)
        ELSE R("expectation", "", pos)

atom(toks, pos) ==
    LET t == nextToken(toks, pos)
        u == nextToken(toks, pos + 1)
        named(a) ==
            IF a.err = ""
            THEN a
            ELSE IF t.Kind = "openList" /\ u.Kind = "closeList"
                 THEN R("", "[]", pos + 2)
                 ELSE IF t.Kind = "openCurly" /\ u.Kind = "closeCurly"
                      THEN R("", "{}", pos + 2)
                      ELSE R("expectation", "", pos)
    IN  named(name(toks, pos))

op(toks, pos, maxPriority) ==
    LET t == nextToken(toks, pos)
        read(a) ==
            IF a.err = ""
            THEN IF a.val = "[]"
                 THEN IF nextToken(toks, a.pos - 1).Kind = "closeList"
                      THEN R("noop", "", a.pos - 2)
                      ELSE R("noop", "", a.pos - 1)
                 ELSE IF a.val = "{}"
                      THEN IF nextToken(toks, a.pos - 1).Kind = "closeCurly"
                           THEN R("noop", "", a.pos - 2)
                           ELSE R("noop", "", a.pos - 1)
                      ELSE a
            ELSE IF t.Kind = "comma" /\ maxPriority >= 1000
                 THEN R("", t.Val, pos + 1)
                 ELSE IF t.Kind = "bar"
                      THEN R("", t.Val, pos + 1)
                      ELSE R("expectation", "", pos)
    IN  read(atom(toks, pos))

\* the least index of the set S of indices of the operator table, 0 when S is
\* empty
firstOf(S) == IF S = {} THEN 0 ELSE CHOOSE i \in S : \A j \in S : i <= j

prefix(toks, pos, ops, maxPriority) ==
    LET found(a, t, i) ==
            IF a.err # ""
            THEN R("noop", "", a.pos)
            ELSE IF a.val = "-" /\ t.Kind \in {"integer", "floatNumber"}
                 THEN R("noop", "", a.pos - 1)
                 ELSE IF t.Kind = "openCT"
                      THEN R("noop", "", a.pos - 1)
                      ELSE IF i # 0
                           THEN R("", ops[i], a.pos)
                           ELSE R("noop", "", a.pos - 1)
        read(a) ==
            found(a, nextToken(toks, a.pos),
                  firstOf({j \in 1..Len(ops) :
                             ops[j].Name = a.val /\ ops[j].Priority <= maxPriority}))
    IN  read(op(toks, pos, maxPriority))

infix(toks, pos, ops, maxPriority) ==
    LET found(a, i) ==
            IF a.err # ""
            THEN R("noop", "", a.pos)
            ELSE IF i # 0
                 THEN R("", ops[i], a.pos)
                 ELSE R("noop", "", a.pos - 1)
        read(a) ==
            found(a, firstOf({j \in 1..Len(ops) :
                                /\ ops[j].Name = a.val
                                /\ bindingPriorities(ops[j])[1] <= maxPriority}))
    IN  read(op(toks, pos, maxPriority))

\* the fields of the Parser a parse reads and writes besides the tokens: the
\* placeholder ("" when there is none), the arguments of Replace not used
\* yet, the pool of parsed variables (pooled is FALSE when p.vars is nil) and
\* the number of variables NewVariable has made
ParserOf(placeholder, args, pooled, pool, n) ==
    [placeholder |-> placeholder, args |-> args, pooled |-> pooled,
     vars |-> pool, n |-> n]

ParsedVariable(nm, v, count) == [Name |-> nm, Variable |-> v, Count |-> count]

\* the variable NewVariable makes after it has made n variables
NewVariable(n) == Variable("_" \o Itoa(n + 1))

\* what a method of the parser that parses a term returns: R, and the fields
\* of the parser as the method leaves them
RP(err, val, pos, p) == [err |-> err, val |-> val, pos |-> pos, p |-> p]

\* parsedVariable without the case of the variable named _
parsedVariableAnonymousPooled(t, pos, p) ==
    LET pooledAt(i) ==
            IF i # 0
            THEN RP("", p.vars[i].Variable, pos + 1,
                    [p EXCEPT !.vars[i].Count = @ + 1])
            ELSE RP("", NewVariable(p.n), pos + 1,
                    [p EXCEPT !.vars =
                                 Append(@, ParsedVariable(t.Val, NewVariable(p.n), 1)),
                              !.n = @ + 1])
    IN  IF ~p.pooled
        THEN RP("", Variable(t.Val), pos + 1, p)
        ELSE pooledAt(firstOf({j \in 1..Len(p.vars) : p.vars[j].Name = t.Val}))

\* the case TokenVariable of term0, for the token t read at position pos
parsedVariable(t, pos, p) ==
    LET pooledAt(i) ==
            IF i # 0
            THEN RP("", p.vars[i].Variable, pos + 1,
                    [p EXCEPT !.vars[i].Count = @ + 1])
            ELSE RP("", NewVariable(p.n), pos + 1,
                    [p EXCEPT !.vars =
                                 Append(@, ParsedVariable(t.Val, NewVariable(p.n), 1)),
                              !.n = @ + 1])
    IN  IF t.Val = "_"
        THEN RP("", NewVariable(p.n), pos + 1, [p EXCEPT !.n = @ + 1])
        ELSE IF ~p.pooled
             THEN RP("", Variable(t.Val), pos + 1, p)
             ELSE pooledAt(firstOf({j \in 1..Len(p.vars) : p.vars[j].Name = t.Val}))

\* the end of term0: the placeholder is replaced by the next argument
replaced(t) ==
    IF t.err # ""
    THEN t
    ELSE IF t.p.placeholder # "" /\ t.val = Atom(t.p.placeholder)
         THEN IF Len(t.p.args) = 0
              THEN RP("not enough arguments for placeholders", Nil, t.pos, t.p)
              ELSE RP("", Head(t.p.args), t.pos, [t.p EXCEPT !.args = Tail(@)])
         ELSE t

RECURSIVE term(_, _, _, _, _)
RECURSIVE termInfix(_, _, _, _, _, _)
RECURSIVE term0(_, _, _, _)
RECURSIVE list(_, _, _, _)
RECURSIVE listRest(_, _, _, _, _)
RECURSIVE curlyBracketedTerm(_, _, _, _)
RECURSIVE functionalNotation(_, _, _, _, _)
RECURSIVE functionalArgs(_, _, _, _, _, _)

term(toks, pos, ops, maxPriority, p) ==
    LET prefixed(o, t) ==
            IF t.err # ""
            THEN RP("", Atom(o.val.Name), t.pos, t.p)
            ELSE RP("", Compound(o.val.Name, <<t.val>>), t.pos, t.p)
        operand(o) ==
            IF o.err = ""
            THEN prefixed(o, term(toks, o.pos, ops, bindingPriorities(o.val)[2], p))
            ELSE term0(toks, o.pos, ops, p)
        rest(lhs) ==
            IF lhs.err # ""
            THEN lhs
            ELSE termInfix(toks, lhs.pos, ops, maxPriority, lhs.val, lhs.p)
        read(o) == rest(operand(o))
    IN  read(prefix(toks, pos, ops, maxPriority))

\* the loop of term over the infix and postfix operators that follow lhs
termInfix(toks, pos, ops, maxPriority, lhs, p) ==
    LET right(o, rhs) ==
            IF rhs.err # ""
            THEN rhs
            ELSE termInfix(toks, rhs.pos, ops, maxPriority,
                           Compound(o.val.Name, <<lhs, rhs.val>>), rhs.p)
        bound(o, rbp) ==
            IF rbp > 1200
            THEN termInfix(toks, o.pos, ops, maxPriority,
                           Compound(o.val.Name, <<lhs>>), p)
            ELSE right(o, term(toks, o.pos, ops, rbp, p))
        read(o) ==
            IF o.err # ""
            THEN RP("", lhs, o.pos, p)
            ELSE bound(o, bindingPriorities(o.val)[2])
    IN  read(infix(toks, pos, ops, maxPriority))

term0(toks, pos, ops, p) ==
    LET t == nextToken(toks, pos)
        u == nextToken(toks, pos + 1)
        number(r, after) ==
            IF r.err # ""
            THEN RP(r.err, Nil, after, p)
            ELSE RP("", IntegerTerm(r), after, p)
        bracketed(inner) ==
            IF inner.err # ""
            THEN inner
            ELSE IF nextToken(toks, inner.pos).Kind # "close"
                 THEN RP("expectation", Nil, inner.pos, inner.p)
                 ELSE RP("", inner.val, inner.pos + 1, inner.p)
        named(a) ==
            IF a.err # ""
            THEN RP(a.err, Nil, a.pos, p)
            ELSE IF a.val = "-" /\ nextToken(toks, a.pos).Kind = "integer"
                 THEN number(parseInteger(-1, nextToken(toks, a.pos).Val), a.pos + 1)
                 ELSE replaced(functionalNotation(toks, a.pos, ops, a.val, p))
    IN  CASE t.Kind \in {"open", "openCT"} -> bracketed(term(toks, pos + 1, ops, 1201, p))
          [] t.Kind = "integer" -> number(parseInteger(1, t.Val), pos + 1)
          [] t.Kind = "variable" -> parsedVariable(t, pos, p)
          [] t.Kind = "openList" /\ u.Kind # "closeList" -> list(toks, pos + 1, ops, p)
          [] t.Kind = "openCurly" /\ u.Kind # "closeCurly" ->
                curlyBracketedTerm(toks, pos + 1, ops, p)
          [] OTHER -> named(atom(toks, pos))

list(toks, pos, ops, p) ==
    LET read(arg) ==
            IF arg.err # ""
            THEN arg
            ELSE listRest(toks, arg.pos, ops, <<arg.val>>, arg.p)
    IN  read(term(toks, pos, ops, 999, p))

\* the loop of list over what follows the arguments args
listRest(toks, pos, ops, args, p) ==
    LET t == nextToken(toks, pos)
        another(arg) ==
            IF arg.err # ""
            THEN arg
            ELSE listRest(toks, arg.pos, ops, Append(args, arg.val), arg.p)
        tail(arg) ==
            IF arg.err # ""
            THEN arg
            ELSE IF nextToken(toks, arg.pos).Kind = "closeList"
                 THEN RP("", ListRest(arg.val, args), arg.pos + 1, arg.p)
                 ELSE RP("expectation", Nil, arg.pos, arg.p)
    IN  CASE t.Kind = "comma" -> another(term(toks, pos + 1, ops, 999, p))
          [] t.Kind = "bar" -> tail(term(toks, pos + 1, ops, 999, p))
          [] t.Kind = "closeList" -> RP("", List(args), pos + 1, p)
          [] OTHER -> RP("expectation", Nil, pos, p)

curlyBracketedTerm(toks, pos, ops, p) ==
    LET read(t) ==
            IF t.err # ""
            THEN t
            ELSE IF nextToken(toks, t.pos).Kind # "closeCurly"
                 THEN RP("expectation", Nil, t.pos, t.p)
                 ELSE RP("", Compound("{}", <<t.val>>), t.pos + 1, t.p)
    IN  read(term(toks, pos, ops, 1201, p))

functionalNotation(toks, pos, ops, functor, p) ==
    LET read(arg) ==
            IF arg.err # ""
            THEN arg
            ELSE functionalArgs(toks, arg.pos, ops, functor, <<arg.val>>, arg.p)
    IN  IF nextToken(toks, pos).Kind = "openCT"
        THEN read(term(toks, pos + 1, ops, 999, p))
        ELSE RP("", Atom(functor), pos, p)

\* the loop of functionalNotation over what follows the arguments args
functionalArgs(toks, pos, ops, functor, args, p) ==
    LET t == nextToken(toks, pos)
        another(arg) ==
            IF arg.err # ""
            THEN arg
            ELSE functionalArgs(toks, arg.pos, ops, functor, Append(args, arg.val),
                                arg.p)
    IN  CASE t.Kind = "comma" -> another(term(toks, pos + 1, ops, 999, p))
          [] t.Kind = "close" -> RP("", Compound(functor, args), pos + 1, p)
          [] OTHER -> RP("expectation", Nil, pos, p)

\* Parser.Term on a parser at position pos of its tokens
Term(toks, ops, pos, p) ==
    LET ended(t, after) ==
            IF t.err = "expectation"
            THEN IF after.Kind \in {"EOF", "insufficient"}
                 THEN RP("insufficient", Nil, t.pos, t.p)
                 ELSE RP("unexpected token", Nil, t.pos, t.p)
            ELSE IF t.err # ""
            THEN RP(t.err, Nil, t.pos, t.p)
            ELSE IF after.Kind = "end"
            THEN IF Len(t.p.args) # 0
                 THEN RP("too many arguments for placeholders", Nil, t.pos + 1, t.p)
                 ELSE RP("", t.val, t.pos + 1, t.p)
            ELSE IF after.Kind \in {"EOF", "insufficient"}
            THEN RP("insufficient", Nil, t.pos + 1, t.p)
            ELSE RP("unexpected token", Nil, t.pos, t.p)
        read(t) == ended(t, nextToken(toks, t.pos))
    IN  IF nextToken(toks, pos).Kind = "EOF"
        THEN RP("EOF", Nil, pos, p)
        ELSE read(term(toks, pos, ops, 1201, p))

\* a parser without placeholder and without pool of variables
NoParser == ParserOf("", <<>>, FALSE, <<>>, 0)

\* arguments of one call of Unparse
UnparseLeaves == {Atom("a"), Variable("X")}

OpTerms(S) ==
    {Compound(f, <<x, y>>) : f \in {"+", "*", "-"}, x \in S, y \in S}
        \cup {Compound("-", <<x>>) : x \in S}

VarNumbers == {-27, -26, -1, 0, 1, 25, 26, 27, 312}

NumberedTerms ==
    {Compound("$VAR", <<Integer(n)>>) : n \in VarNumbers}
        \cup {Compound("f", <<Compound("$VAR", <<Integer(n)>>), Atom("a")>>) :
                n \in VarNumbers}
        \cup {Compound("$VAR", <<Atom("a")>>), Compound("$VAR", <<Variable("X")>>)}

IntegerTerms ==
    {Compound("*", <<Integer(2), Compound("+", <<Integer(2), Integer(2)>>)>>),
     Compound("+", <<Compound("*", <<Integer(2), Integer(2)>>), Integer(2)>>),
     Compound("+", <<Integer(2), Integer(-2)>>),
     Compound("-", <<Integer(2)>>)}

ListTerms ==
    {List(<<Atom("a"), Variable("X")>>),
     Compound(".", <<Atom("a"), Variable("X")>>),
     Compound("{}", <<Compound("+", <<Atom("a"), Atom("a")>>)>>),
     Compound("f", <<List(<<Atom("a")>>), Compound("g", <<Variable("X")>>)>>)}

UnparseTerms ==
    OpTerms(UnparseLeaves \cup OpTerms(UnparseLeaves))
        \cup NumberedTerms \cup IntegerTerms \cup ListTerms

UnparseOps ==
    {<<>>,
     <<Operator(500, "yfx", "+"), Operator(400, "yfx", "*")>>,
     <<Operator(200, "fy", "-"), Operator(500, "yfx", "-"), Operator(700, "xfx", "-"),
       Operator(500, "yfx", "+"), Operator(400, "yfx", "*")>>,
     <<Operator(700, "xfx", "+"), Operator(400, "xfy", "*"), Operator(200, "xf", "-")>>}

UnparsePriorities == {450, 1200}

UnparseEnvs ==
    {NewEnv, Bind(NewEnv, Variable("X"), Compound("+", <<Atom("a"), Atom("b")>>))}

UnparseCall ==
    /\ ~written.done
    /\ LET w == Unparse(unparseC, unparseOpts, unparseEnv, MaxUnparse)
       IN  written' = [done |-> TRUE, toks |-> w.toks, panic |-> w.panic,
                       over |-> w.over]
    /\ UNCHANGED <<unparseC, unparseOpts, unparseEnv, parsed, notWrite>>

UnparseInit ==
    /\ OnlyWrite
    /\ unparseC \in UnparseTerms
    /\ unparseOpts \in {WriteTermOptions(ops, priority, numberVars) :
                          ops \in UnparseOps, priority \in UnparsePriorities,
                          numberVars \in BOOLEAN}
    /\ unparseEnv \in UnparseEnvs
    /\ written = [done |-> FALSE, toks |-> <<>>, panic |-> FALSE, over |-> FALSE]
    /\ parsed = [done |-> FALSE, t |-> Nil, err |-> ""]

\* Parser.Term, with the operator table of the call of Unparse, on the text
\* of the tokens Unparse wrote
TermCall ==
    /\ written.done
    /\ ~written.panic
    /\ ~written.over
    /\ ~parsed.done
    /\ LET r == Term(Relex(written.toks, 1), unparseOpts.Ops, 1, NoParser)
       IN  parsed' = [done |-> TRUE, t |-> r.val, err |-> r.err]
    /\ UNCHANGED <<unparseC, unparseOpts, unparseEnv, written, notWrite>>

UnparseNext == UnparseCall \/ TermCall

SpecUnparse == UnparseInit /\ [][UnparseNext]_vars

\* the operator Unparse writes the compound c with: the first of the table
\* with the functor's name and a specifier of the compound's arity
OpClass(c) == IF Len(c.args) = 1 THEN {"fx", "fy", "xf", "yf"} ELSE {"xfx", "xfy", "yfx"}

OpsFor(c, ops) ==
    {i \in 1..Len(ops) : ops[i].Name = c.n /\ ops[i].Specifier \in OpClass(c)}

OpFor(c, ops) == ops[CHOOSE i \in OpsFor(c, ops) : \A j \in OpsFor(c, ops) : i <= j]

\* a compound Unparse writes in operator notation
IsOpTerm(c, ops) ==
    /\ c.k = "cmp"
    /\ Len(c.args) \in {1, 2}
    /\ OpsFor(c, ops) # {}
    /\ ~(c.n = "." /\ Len(c.args) = 2)
    /\ ~(c.n = "{}" /\ Len(c.args) = 1)

\* what the operator o is written as between, before or after the arguments,
\* each written with the operator's priority as the ambient one
OpBody(c, o, opts, env) ==
    LET under == [opts EXCEPT !.Priority = o.Priority]
        a(i) == TermUnparse(EnvResolve(c.args[i], env), under, env, MaxUnparse).toks
        f == <<Token(IF c.n \in GraphicAtoms THEN "graphic" ELSE "ident", c.n)>>
    IN  IF Len(c.args) = 2
        THEN a(1) \o f \o a(2)
        ELSE IF o.Specifier \in {"fx", "fy"} THEN f \o a(1) ELSE a(1) \o f

\* C12: a compound of arity 1 or 2 whose functor is an operator is written with
\* the first operator of the table that has the functor's name and a specifier
\* of the compound's arity, and in parentheses exactly when that operator's
\* priority is greater than the ambient opts.Priority.
C12_OperatorParens ==
    (written.done /\ IsOpTerm(unparseC, unparseOpts.Ops)) =>
        LET o == OpFor(unparseC, unparseOpts.Ops)
            body == OpBody(unparseC, o, unparseOpts, unparseEnv)
        IN  /\ ~written.panic
            /\ ~written.over
            /\ written.toks =
                 IF o.Priority > unparseOpts.Priority
                 THEN <<Token("parenL", "(")>> \o body \o <<Token("parenR", ")")>>
                 ELSE body

\* 2*(2+2) is written 2 * ( 2 + 2 )
C12_Witness ==
    /\ written.done
    /\ unparseC = Compound("*", <<Integer(2), Compound("+", <<Integer(2), Integer(2)>>)>>)
    /\ unparseOpts = WriteTermOptions(<<Operator(500, "yfx", "+"),
                                        Operator(400, "yfx", "*")>>, 1200, FALSE)
    /\ written.toks = <<Token("integer", "2"), Token("graphic", "*"),
                        Token("parenL", "("), Token("integer", "2"),
                        Token("graphic", "+"), Token("integer", "2"),
                        Token("parenR", ")")>>

\* the argument N of a term '$VAR'(N)
IsNumbered(c) == c.k = "cmp" /\ c.n = "$VAR" /\ Len(c.args) = 1 /\ c.args[1].k = "int"

\* C13: with NumberVars, '$VAR'(N) with N >= 0 is written as the one Variable
\* token made of the letter at N mod 26 and, exactly when N div 26 > 0, the
\* decimal N div 26; with N negative, or without NumberVars, Unparse returns
\* normally and has written '$VAR'(N) in functional notation.
C13_NumberVars ==
    (written.done /\ IsNumbered(unparseC)) =>
        LET N == unparseC.args[1].v
        IN  /\ ~written.panic
            /\ ~written.over
            /\ written.toks =
                 IF unparseOpts.NumberVars /\ N >= 0
                 THEN <<Token("variable",
                              IF N \div 26 > 0
                              THEN letters[(N % 26) + 1] \o Itoa(N \div 26)
                              ELSE letters[(N % 26) + 1])>>
                 ELSE <<Token("ident", "$VAR"), Token("parenL", "(")>>
                        \o IntegerUnparse(unparseC.args[1]).toks
                        \o <<Token("parenR", ")")>>

\* the term t with the bindings of env put in
RECURSIVE Substituted(_, _)
Substituted(t, env) ==
    LET r == EnvResolve(t, env)
    IN  IF r.k = "cmp"
        THEN Compound(r.n, [i \in 1..Len(r.args) |-> Substituted(r.args[i], env)])
        ELSE r

\* a term built from operators of the table over named variables, atoms that
\* are no operators, and non-negative integers
RECURSIVE BuiltFromOps(_, _)
BuiltFromOps(t, ops) ==
    \/ t.k = "var"
    \/ t.k = "atom" /\ t.n \in {"a", "b"}
    \/ t.k = "int" /\ t.v >= 0
    \/ /\ IsOpTerm(t, ops)
       /\ \A i \in 1..Len(t.args) : BuiltFromOps(t.args[i], ops)

\* C11: for a term t built from operators of the table, Parser.Term with the
\* same table reads the tokens Unparse wrote for t as t again.
C11_RoundTrip ==
    (parsed.done /\ BuiltFromOps(Substituted(unparseC, unparseEnv), unparseOpts.Ops)) =>
        /\ parsed.err = ""
        /\ parsed.t = Substituted(unparseC, unparseEnv)

-----------------------------------------------------------------------------
(***************************************************************************)
(* Compound.Unparse of a list, one step per pass of its loop over the      *)
(* rest of the list.                                                       *)
(***************************************************************************)
WriteElems == {Atom("a"), Atom("b")}

\* the lists written: a chain of cells that ends in [] or in the variable X
WriteLists ==
    {ListRest(rest, es) : rest \in {Atom("[]"), Variable("X")},
                          es \in Seqs(WriteElems, MaxLen)}

\* what X is bound to: nothing, the list itself, a cell whose tail is X
\* again, an atom, a proper list
WriteEnvs(c) ==
    {NewEnv,
     Bind(NewEnv, Variable("X"), c),
     Bind(NewEnv, Variable("X"), Cons(Atom("b"), Variable("X"))),
     Bind(NewEnv, Variable("X"), Atom("b")),
     Bind(NewEnv, Variable("X"), List(<<Atom("a")>>))}

defaultWriteTermOptions == WriteTermOptions(<<>>, 1200, FALSE)

\* the tokens of an element of the list
WriteElem(t) ==
    TermUnparse(EnvResolve(t, wrEnv), defaultWriteTermOptions, wrEnv, MaxUnparse).toks

IsCons(t) == t.k = "cmp" /\ t.n = "." /\ Len(t.args) = 2

\* emit "[", write the first element, resolve the rest
WriteOpen ==
    /\ wrPc = "start"
    /\ wrEmit' = <<Token("bracketL", "[")>> \o WriteElem(wrC.args[1])
    /\ wrT' = EnvResolve(wrC.args[2], wrEnv)
    /\ wrPc' = "loop"
    /\ UNCHANGED <<wrC, wrEnv, notLoop>>

\* the rest is a cell: emit ",", write its element, resolve its rest, continue
WriteCons ==
    /\ wrPc = "loop"
    /\ IsCons(wrT)
    /\ wrEmit' = <<Token("comma", ",")>> \o WriteElem(wrT.args[1])
    /\ wrT' = EnvResolve(wrT.args[2], wrEnv)
    /\ UNCHANGED <<wrC, wrEnv, wrPc, notLoop>>

\* the rest is no cell: write "|" and the rest unless it is [], emit "]",
\* return
WriteClose ==
    /\ wrPc = "loop"
    /\ ~IsCons(wrT)
    /\ wrEmit' = (IF wrT = Atom("[]")
                  THEN <<>>
                  ELSE <<Token("bar", "|")>> \o WriteElem(wrT))
                    \o <<Token("bracketR", "]")>>
    /\ wrPc' = "done"
    /\ UNCHANGED <<wrC, wrEnv, wrT, notLoop>>

WriteInit ==
    /\ OnlyLoop
    /\ wrC \in WriteLists
    /\ wrEnv \in WriteEnvs(wrC)
    /\ wrT = Nil
    /\ wrPc = "start"
    /\ wrEmit = <<>>

WriteNext == WriteOpen \/ WriteCons \/ WriteClose

SpecWrite == WriteInit /\ [][WriteNext]_vars

\* a call that is running takes its next step
SpecWriteFair == SpecWrite /\ WF_vars(WriteNext)

\* C14: Compound.Unparse returns on every list, also on one whose rest leads
\* back into the list through the bindings of env.
C14_UnparseTerminates == <>(wrPc = "done")

-----------------------------------------------------------------------------
(***************************************************************************)
(* ListIterator.                                                           *)
(***************************************************************************)
\* calls of Next a caller makes after Next has returned false
MaxExtra == 1

NilError == [e |-> "nil", type |-> "", culprit |-> Nil]

TypeError(validType, culprit, env) ==
    [e |-> "type_error", type |-> validType, culprit |-> culprit]

InstantiationError(env) == [e |-> "instantiation_error", type |-> "", culprit |-> Nil]

\* what tells one term from another: its cells for a compound, its value for
\* an atom or a number, its name for a variable
ID(t) == t

ListIterator(l, env, allowPartial) ==
    [List |-> l, Env |-> env, AllowPartial |-> allowPartial, current |-> Nil,
     err |-> NilError, tortoise |-> Nil, hare |-> Nil, power |-> 0, lam |-> 0]

\* the iterator once Next has found the hare where the tortoise is
cycleErrorUnset(i) == i

cycleError(i) == [i EXCEPT !.err = TypeError("list", i.List, i.Env)]

\* the iterator once Next has found that the list does not end in []
listErrorOfTail(i) == [i EXCEPT !.err = TypeError("list", i.hare, i.Env)]

listError(i) == [i EXCEPT !.err = TypeError("list", i.List, i.Env)]

\* the iterator once Next has moved over the cell l
advanceOverCell(i, l) ==
    [i EXCEPT !.current = l, !.hare = EnvResolve(l.args[2], i.Env), !.lam = @ + 1]

advance(i, l) ==
    [i EXCEPT !.current = l.args[1], !.hare = EnvResolve(l.args[2], i.Env),
              !.lam = @ + 1]

\* one call of Next: the iterator after it and what it returned
ListIteratorNext(i) ==
    LET i1 == [i EXCEPT !.hare = IF @ = Nil THEN EnvResolve(i.List, i.Env) ELSE @,
                        !.power = IF @ = 0 THEN 1 ELSE @,
                        !.lam = IF @ = 0 THEN 1 ELSE @]
        i2 == IF i1.power = i1.lam
              THEN [i1 EXCEPT !.tortoise = i1.hare, !.power = @ * 2, !.lam = 0]
              ELSE i1
        l == i2.hare
    IN  IF ID(i1.tortoise) = ID(i1.hare)
        THEN [i |-> cycleError(i1), ok |-> FALSE]
        ELSE CASE l.k = "var" ->
                    [i |-> IF ~i2.AllowPartial
                           THEN [i2 EXCEPT !.err = InstantiationError(i2.Env)]
                           ELSE i2,
                     ok |-> FALSE]
               [] l.k = "atom" ->
                    [i |-> IF l # Atom("[]") THEN listError(i2) ELSE i2, ok |-> FALSE]
               [] l.k = "cmp" ->
                    IF l.n # "." \/ Len(l.args) # 2
                    THEN [i |-> listError(i2), ok |-> FALSE]
                    ELSE [i |-> advance(i2, l), ok |-> TRUE]
               [] OTHER -> [i |-> listError(i2), ok |-> FALSE]

\* the calls of Next that returned false
Falses(cs) == {k \in 1..Len(cs) : ~cs[k].ok}

ListNextCall ==
    /\ li # Nil
    /\ Cardinality(Falses(liCalls)) <= MaxExtra
    /\ LET r == ListIteratorNext(li)
       IN  /\ li' = r.i
           /\ liCalls' = Append(liCalls, [ok |-> r.ok, current |-> r.i.current,
                                          err |-> r.i.err])
    /\ UNCHANGED notList

ListElems == {Atom("a"), Atom("b")}

\* what the chain of cells ends in
ListRests ==
    {Atom("[]"), Variable("X"), Atom("foo"), Compound("f", <<Integer(0)>>), Integer(1)}

ListLists ==
    {ListRest(rest, es) : rest \in ListRests,
                          es \in {<<>>} \cup Seqs(ListElems, MaxLen)}

\* what X is bound to: nothing, the list itself, a cell whose tail is X
\* again, an atom, a proper list
ListEnvs(c) ==
    {NewEnv,
     Bind(NewEnv, Variable("X"), Cons(Atom("b"), Variable("X"))),
     Bind(NewEnv, Variable("X"), Atom("foo")),
     Bind(NewEnv, Variable("X"), List(<<Atom("a")>>))}
        \cup (IF c.k = "cmp" THEN {Bind(NewEnv, Variable("X"), c)} ELSE {})

ListInit ==
    /\ OnlyList
    /\ \E c \in ListLists, allowPartial \in BOOLEAN :
         \E env \in ListEnvs(c) : li = ListIterator(c, env, allowPartial)
    /\ liCalls = <<>>

ListNext == ListNextCall

SpecList == ListInit /\ [][ListNext]_vars

\* a caller that has not seen Next return false calls it again
SpecListFair == SpecList /\ WF_vars(ListNext)

\* the chain of cells from t on, read in env: its elements, and what it ends
\* in ("nil", "var", "other"; "cycle" when it leads back to a cell in seen)
RECURSIVE Walk(_, _, _, _)
Walk(t, env, seen, elems) ==
    LET r == EnvResolve(t, env)
    IN  IF r \in seen
        THEN [elems |-> elems, end |-> "cycle", rest |-> r]
        ELSE IF IsCons(r)
             THEN Walk(r.args[2], env, seen \cup {r}, Append(elems, r.args[1]))
             ELSE [elems |-> elems,
                   end |-> CASE r = Atom("[]") -> "nil"
                             [] r.k = "var" -> "var"
                             [] OTHER -> "other",
                   rest |-> r]

Chain == Walk(li.List, li.Env, {}, <<>>)

\* the first call of Next that returned false, 0 when there is none yet
FirstFalse ==
    IF Falses(liCalls) = {}
    THEN 0
    ELSE CHOOSE k \in Falses(liCalls) : \A j \in Falses(liCalls) : k <= j

IsListError(err) == err.e = "type_error" /\ err.type = "list"

IsCyclic == li # Nil /\ Chain.end = "cycle"

EndedInListError == FirstFalse # 0 /\ IsListError(liCalls[FirstFalse].err)

\* C15: on a list whose chain of cells leads back into itself, Next returns
\* false after finitely many calls, and Err() is then a type error for list.
C15_CyclicListEnds == IsCyclic ~> EndedInListError

\* [a|X] with X bound to [a|X]: the second call of Next returns false
C15_Witness ==
    /\ li # Nil
    /\ li.List = Cons(Atom("a"), Variable("X"))
    /\ li.Env = Bind(NewEnv, Variable("X"), Cons(Atom("a"), Variable("X")))
    /\ Len(liCalls) = 2
    /\ liCalls[1].ok
    /\ ~liCalls[2].ok
    /\ liCalls[2].err = TypeError("list", li.List, li.Env)

\* the calls of Next up to the first that returned false delivered the
\* elements of the chain one by one
Delivered(es) ==
    /\ \A k \in 1..Len(liCalls) : liCalls[k].ok <=> k <= Len(es)
    /\ \A k \in 1..Len(liCalls) : k <= Len(es) => liCalls[k].current = es[k]

\* C16: on a proper list of n elements Next returns true exactly n times,
\* Current() after the k-th of them is the k-th element, and the call after
\* them returns false with Err() nil.
C16_ProperList ==
    (li # Nil /\ Chain.end = "nil") =>
        LET n == Len(Chain.elems)
        IN  /\ Delivered(Chain.elems)
            /\ Len(liCalls) > n => liCalls[n + 1].err = NilError

\* [a, b, a]: three elements, then false without an error
C16_Witness ==
    /\ li # Nil
    /\ li.List = List(<<Atom("a"), Atom("b"), Atom("a")>>)
    /\ Len(liCalls) = 4
    /\ liCalls[3].ok
    /\ liCalls[3].current = Atom("a")
    /\ ~liCalls[4].ok
    /\ liCalls[4].err = NilError

\* C17: on a list whose chain ends in something other than [], Next delivers
\* the elements before it and then returns false; Err() is then an
\* instantiation error for an unbound variable unless AllowPartial, nil for
\* an unbound variable with AllowPartial, and otherwise a type error
\* list(L) with L the list the iterator was made for.
C17_ImproperList ==
    (li # Nil /\ Chain.end \in {"var", "other"}) =>
        LET n == Len(Chain.elems)
        IN  /\ \A k \in 1..Len(liCalls) : k <= n =>
                    liCalls[k].ok /\ liCalls[k].current = Chain.elems[k]
            /\ Len(liCalls) > n =>
                 /\ ~liCalls[n + 1].ok
                 /\ liCalls[n + 1].err =
                      IF Chain.end = "var"
                      THEN IF li.AllowPartial
                           THEN NilError
                           ELSE InstantiationError(li.Env)
                      ELSE TypeError("list", li.List, li.Env)

\* [a, b|foo]: two elements, then false with type error list([a, b|foo])
C17_Witness ==
    /\ li # Nil
    /\ li.List = ListRest(Atom("foo"), <<Atom("a"), Atom("b")>>)
    /\ Len(liCalls) = 3
    /\ liCalls[2].ok
    /\ ~liCalls[3].ok
    /\ liCalls[3].err = TypeError("list", li.List, li.Env)
    /\ li.hare = Atom("foo")

\* C38: once Next has returned false on a proper list, every later call of
\* Next returns false too and Err() stays nil.
C38_StableAfterExhaustion ==
    (li # Nil /\ Chain.end = "nil" /\ FirstFalse # 0) =>
        \A k \in FirstFalse..Len(liCalls) :
            ~liCalls[k].ok /\ liCalls[k].err = NilError

\* the call that found the end of the list [a, b] put the tortoise where the
\* hare is, and the call after it set a type error
C38_ErrorAfterEnd ==
    /\ li # Nil
    /\ li.List = List(<<Atom("a"), Atom("b")>>)
    /\ Len(liCalls) = 4
    /\ ~liCalls[3].ok /\ liCalls[3].err = NilError
    /\ ~liCalls[4].ok /\ liCalls[4].err = TypeError("list", li.List, li.Env)

\* on the list [a] the call after the end leaves Err() nil
C38_StableOnOne ==
    /\ li # Nil
    /\ li.List = List(<<Atom("a")>>)
    /\ Len(liCalls) = 3
    /\ ~liCalls[2].ok /\ ~liCalls[3].ok /\ liCalls[3].err = NilError

-----------------------------------------------------------------------------
(***************************************************************************)
(* Seq and SeqIterator.                                                    *)
(***************************************************************************)
\* Seq (SeqTerm here: Seq is the set of sequences of the Sequences module):
\* its loop from index i down, s what it has built so far
RECURSIVE seqFrom(_, _, _, _)
seqFrom(sep, ts, i, s) ==
    IF i < 1 THEN s ELSE seqFrom(sep, ts, i - 1, Compound(sep, <<ts[i], s>>))

\* the elements nested to the left
RECURSIVE SeqLeft(_, _)
SeqLeft(sep, ts) ==
    IF Len(ts) = 1
    THEN ts[1]
    ELSE Compound(sep, <<SeqLeft(sep, SubSeq(ts, 1, Len(ts) - 1)), ts[Len(ts)]>>)

SeqTerm(sep, ts) == seqFrom(sep, SubSeq(ts, 1, Len(ts) - 1), Len(ts) - 1, ts[Len(ts)])

SeqIterator(seq, env) == [Seq |-> seq, Env |-> env, current |-> Nil]

\* one call of Next: the iterator after it and what it returned
SeqIteratorNext(i) ==
    LET s == IF i.Seq = Nil THEN Nil ELSE EnvResolve(i.Seq, i.Env)
    IN  IF s = Nil
        THEN [i |-> i, ok |-> FALSE]
        ELSE IF s.k = "cmp" /\ ~(s.n # "," \/ Len(s.args) # 2)
             THEN [i |-> [i EXCEPT !.Seq = s.args[2], !.current = s.args[1]],
                   ok |-> TRUE]
             ELSE [i |-> [i EXCEPT !.current = s, !.Seq = Nil], ok |-> TRUE]

SeqElems ==
    {Atom("a"), Atom("b"), Compound("f", <<Atom("c")>>), Variable("X"),
     Compound(",", <<Atom("a"), Atom("b")>>)}

SeqEnvs ==
    {NewEnv,
     Bind(NewEnv, Variable("X"), Atom("b")),
     Bind(NewEnv, Variable("X"), Compound(",", <<Atom("a"), Atom("b")>>))}

\* Seq(",", ts...) and an iterator over it
SeqCall ==
    /\ seqTs # <<>>
    /\ si = Nil
    /\ seqOut' = SeqTerm(",", seqTs)
    /\ \E env \in SeqEnvs : si' = SeqIterator(SeqTerm(",", seqTs), env)
    /\ UNCHANGED <<seqTs, siCalls, notSeq>>

SeqNextCall ==
    /\ si # Nil
    /\ Cardinality(Falses(siCalls)) <= MaxExtra
    /\ LET r == SeqIteratorNext(si)
       IN  /\ si' = r.i
           /\ siCalls' = Append(siCalls, [ok |-> r.ok, current |-> r.i.current])
    /\ UNCHANGED <<seqTs, seqOut, notSeq>>

SeqInit ==
    /\ OnlySeq
    /\ seqTs \in Seqs(SeqElems, MaxLen)
    /\ seqOut = Nil
    /\ si = Nil
    /\ siCalls = <<>>

SeqNext == SeqCall \/ SeqNextCall

SpecSeq == SeqInit /\ [][SeqNext]_vars

IsComma(t) == t.k = "cmp" /\ t.n = "," /\ Len(t.args) = 2

\* the elements nested to the right
RECURSIVE RightNested(_, _)
RightNested(sep, ts) ==
    IF Len(ts) = 1 THEN ts[1] ELSE Compound(sep, <<Head(ts), RightNested(sep, Tail(ts))>>)

\* C19: Seq(sep, a) is a and Seq nests to the right; and when the last
\* element of a non-empty ts, read in the iterator's Env, is no ,/2 compound,
\* a SeqIterator over Seq(",", ts...) yields the elements of ts in order, the
\* last one read in Env: Next returns true len(ts) times, then false.
C19_SeqIteratorYieldsTs ==
    si # Nil =>
        LET n == Len(seqTs)
            last == EnvResolve(seqTs[n], si.Env)
        IN  /\ n = 1 => seqOut = seqTs[1]
            /\ seqOut = RightNested(",", seqTs)
            /\ ~IsComma(last) =>
                 \A k \in 1..Len(siCalls) :
                    /\ siCalls[k].ok <=> k <= n
                    /\ k < n => siCalls[k].current = seqTs[k]
                    /\ k = n => siCalls[k].current = last

\* Seq(",", a, b, f(c)) yields a, b, f(c) and then no more
C19_Witness ==
    /\ si # Nil
    /\ seqTs = <<Atom("a"), Atom("b"), Compound("f", <<Atom("c")>>)>>
    /\ seqOut = Compound(",", <<Atom("a"),
                    Compound(",", <<Atom("b"), Compound("f", <<Atom("c")>>)>>)>>)
    /\ Len(siCalls) = 4
    /\ siCalls[3].ok
    /\ siCalls[3].current = Compound("f", <<Atom("c")>>)
    /\ ~siCalls[4].ok

-----------------------------------------------------------------------------
(***************************************************************************)
(* AltIterator.                                                            *)
(***************************************************************************)
AltIterator(alt, env) == [Alt |-> alt, Env |-> env, current |-> Nil]

\* a is never taken for an if-then-else
ifThenElseNever(a, env) == FALSE

\* the left argument of a is a ->/2 compound
ifThenElse(a, env) ==
    LET c == EnvResolve(a.args[1], env)
    IN  c.k = "cmp" /\ c.n = "->" /\ Len(c.args) = 2

\* one call of Next: the iterator after it and what it returned
AltIteratorNext(i) ==
    LET a == IF i.Alt = Nil THEN Nil ELSE EnvResolve(i.Alt, i.Env)
    IN  IF a = Nil
        THEN [i |-> i, ok |-> FALSE]
        ELSE IF a.k = "cmp" /\ ~(a.n # ";" \/ Len(a.args) # 2)
             THEN IF ifThenElse(a, i.Env)
                  THEN [i |-> [i EXCEPT !.current = a, !.Alt = Nil], ok |-> TRUE]
                  ELSE [i |-> [i EXCEPT !.Alt = a.args[2], !.current = a.args[1]],
                        ok |-> TRUE]
             ELSE [i |-> [i EXCEPT !.current = a, !.Alt = Nil], ok |-> TRUE]

AltElems ==
    {Atom("a"), Atom("b"), Compound("f", <<Atom("c")>>), Variable("X"),
     Compound("->", <<Atom("a"), Atom("b")>>),
     Compound(";", <<Atom("a"), Atom("b")>>)}

AltTerms == {SeqTerm(";", ts) : ts \in Seqs(AltElems, MaxLen)}

AltEnvs ==
    {NewEnv,
     Bind(NewEnv, Variable("X"), Atom("b")),
     Bind(NewEnv, Variable("X"), Compound("->", <<Atom("a"), Atom("b")>>)),
     Bind(NewEnv, Variable("X"), Compound(";", <<Atom("a"), Atom("b")>>))}

AltNextCall ==
    /\ ai # Nil
    /\ Cardinality(Falses(aiCalls)) <= MaxExtra
    /\ LET r == AltIteratorNext(ai)
       IN  /\ ai' = r.i
           /\ aiCalls' = Append(aiCalls, [ok |-> r.ok, current |-> r.i.current])
    /\ UNCHANGED <<altT, notAlt>>

AltInit ==
    /\ OnlyAlt
    /\ altT \in AltTerms
    /\ \E env \in AltEnvs : ai = AltIterator(altT, env)
    /\ aiCalls = <<>>

AltNext == AltNextCall

SpecAlt == AltInit /\ [][AltNext]_vars

IsOr(t) == t.k = "cmp" /\ t.n = ";" /\ Len(t.args) = 2

IsThen(t) == t.k = "cmp" /\ t.n = "->" /\ Len(t.args) = 2

\* the alternatives of t read in env: the left arguments of the right-nested
\* ;/2 and the last right argument; a ;/2 whose left argument is a ->/2 is
\* the last alternative as a whole
RECURSIVE Alternatives(_, _)
Alternatives(t, env) ==
    LET r == EnvResolve(t, env)
    IN  IF IsOr(r) /\ ~IsThen(EnvResolve(r.args[1], env))
        THEN <<r.args[1]>> \o Alternatives(r.args[2], env)
        ELSE <<r>>

\* C18: AltIterator yields the left argument of each right-nested ;/2 in
\* order and then the last right argument, a ;/2 whose left argument is a ->/2
\* compound whole as the last element, a term that is no ;/2 once; after the
\* last element Next returns false.  Terms are read in the iterator's Env.
C18_AltIteratorSplits ==
    ai # Nil =>
        LET alts == Alternatives(altT, ai.Env)
        IN  \A k \in 1..Len(aiCalls) :
               /\ aiCalls[k].ok <=> k <= Len(alts)
               /\ k <= Len(alts) => aiCalls[k].current = alts[k]

\* (a ; (a -> b) ; b) yields a and then ((a -> b) ; b) whole
C18_Witness ==
    /\ ai # Nil
    /\ altT = SeqTerm(";", <<Atom("a"), Compound("->", <<Atom("a"), Atom("b")>>),
                            Atom("b")>>)
    /\ Len(aiCalls) = 3
    /\ aiCalls[1].current = Atom("a")
    /\ aiCalls[2].ok
    /\ aiCalls[2].current = Compound(";", <<Compound("->", <<Atom("a"), Atom("b")>>),
                                            Atom("b")>>)
    /\ ~aiCalls[3].ok

-----------------------------------------------------------------------------
(***************************************************************************)
(* Univ, on Variable cells.                                                *)
(***************************************************************************)
\* Variables the two calls of Univ can hold
MaxCells == 10

\* what Univ returns, and the cells it leaves
Univd(ok, err, cells, n) == [ok |-> ok, err |-> err, refs |-> cells, n |-> n]

\* the loop of Univ over the rest of the ls
RECURSIVE univArgs(_, _, _, _, _, _)
univArgs(tm, f, ls, args, cells, n) ==
    IF ls = Atom("[]")
    THEN LET u == UnifyCells(tm, Compound(f.n, args), cells)
         IN  IF ~u.ok THEN Univd(FALSE, "", u.refs, n) ELSE Univd(TRUE, "", u.refs, n)
    ELSE IF ls = Nil
         THEN Univd(FALSE, "nil pointer dereference", cells, n)
         ELSE LET car == Cell(n + 1)
                  cdr == Cell(n + 2)
                  u == UnifyCells(ls, Cons(car, cdr), cells)
              IN  IF ~u.ok
                  THEN Univd(FALSE, "invalid argument", u.refs, n + 2)
                  ELSE univArgs(tm, f, u.refs[cdr.v], Append(args, u.refs[car.v]),
                                u.refs, n + 2)

\* Univ with a continuation k that returns true
Univ(tm, ls, cells, n) ==
    LET t == Resolve(tm, cells)
        car == Cell(n + 1)
        cdr == Cell(n + 2)
        u == UnifyCells(ls, Cons(car, cdr), cells)
        f == Resolve(u.refs[car.v], u.refs)
        l == UnifyCells(ls, Cons(Atom(t.n), List(t.args)), cells)
    IN  CASE t.k = "var" ->
                IF ~u.ok
                THEN Univd(FALSE, "invalid argument", u.refs, n + 2)
                ELSE IF f.k # "atom"
                     THEN Univd(FALSE, "invalid argument", u.refs, n + 2)
                     ELSE univArgs(tm, f, u.refs[cdr.v], <<>>, u.refs, n + 2)
          [] t.k = "cmp" ->
                IF ~l.ok THEN Univd(FALSE, "", l.refs, n) ELSE Univd(TRUE, "", l.refs, n)
          [] OTHER -> Univd(FALSE, "invalid argument", cells, n)

\* the Variables L, S and T of the two calls
UnivL == Cell(1)

UnivS == Cell(2)

UnivT == Cell(3)

UnivArgs == {Atom("a"), Atom("b"), Integer(1), Compound("g", <<Atom("a")>>)}

\* the terms t: atoms, compounds, a number
UnivTerms ==
    {Atom("a"), Atom("foo"), Atom("[]"), Integer(1)}
        \cup {Compound(f, as) : f \in {"f", "."}, as \in Seqs(UnivArgs, MaxArity)}

\* t =.. L
UnivDecompose ==
    /\ uvT # Nil
    /\ ~uvFirst.done
    /\ LET r == Univ(uvT, UnivL, uvRefs, uvN)
       IN  /\ uvFirst' = Result(r.ok, r.err)
           /\ uvRefs' = r.refs
           /\ uvN' = r.n
    /\ UNCHANGED <<uvT, uvSecond, notUniv>>

\* S =.. L
UnivCompose ==
    /\ uvFirst.done
    /\ uvFirst.ok
    /\ ~uvSecond.done
    /\ LET r == Univ(UnivS, UnivL, uvRefs, uvN)
       IN  /\ uvSecond' = Result(r.ok, r.err)
           /\ uvRefs' = r.refs
           /\ uvN' = r.n
    /\ UNCHANGED <<uvT, uvFirst, notUniv>>

\* t is given as it is, or as the Variable T bound to it
UnivInit ==
    /\ OnlyUniv
    /\ \E t \in UnivTerms :
         \/ uvT = t /\ uvRefs = [i \in 1..MaxCells |-> Nil]
         \/ uvT = UnivT /\ uvRefs = [i \in 1..MaxCells |-> IF i = 3 THEN t ELSE Nil]
    /\ uvN = 3
    /\ uvFirst = NoResult
    /\ uvSecond = NoResult

UnivNext == UnivDecompose \/ UnivCompose

SpecUniv == UnivInit /\ [][UnivNext]_vars

\* the term t with the contents of the cells put in
RECURSIVE Deref(_, _)
Deref(t, cells) ==
    LET r == IF t = Nil THEN Nil ELSE Resolve(t, cells)
    IN  IF r.k = "cmp"
        THEN Compound(r.n, [i \in 1..Len(r.args) |-> Deref(r.args[i], cells)])
        ELSE r

\* the term t stands for at the start
UnivGiven == IF uvT = UnivT THEN uvRefs[3] ELSE uvT

\* C20: for a compound or an atom t, Univ(t, L) succeeds and binds L to the
\* list of the name of t and its arguments, and Univ(S, L) with S unbound then
\* succeeds and binds S to a term identical to t.
C20_UnivRoundTrip ==
    (uvT # Nil /\ UnivGiven.k \in {"cmp", "atom"}) =>
        /\ uvFirst.done =>
             /\ uvFirst.ok
             /\ uvFirst.err = ""
             /\ Deref(UnivL, uvRefs) = List(<<Atom(UnivGiven.n)>> \o UnivGiven.args)
        /\ uvSecond.done =>
             /\ uvSecond.ok
             /\ uvSecond.err = ""
             /\ Deref(UnivS, uvRefs) = UnivGiven

-----------------------------------------------------------------------------
(***************************************************************************)
(* Functor(term, name, arity, k) with a continuation k that returns true,  *)
(* on Variables that hold their binding in the Ref field.                  *)
(***************************************************************************)
\* the Variables T, N, A of the first call and N2, A2 of the second
FunctorT == Cell(1)

FunctorN == Cell(2)

FunctorA == Cell(3)

FunctorN2 == Cell(4)

FunctorA2 == Cell(5)

\* the terms given: atoms, a number, compounds
FunctorTerms ==
    {Atom("a"), Atom("[]"), Integer(1)}
        \cup {Compound(f, as) : f \in {"f", "."}, as \in Seqs(UnivArgs, MaxArity) \ {<<>>}}

FunctorNames == {Atom("foo"), Atom("[]"), Integer(1), Compound("f", <<Atom("a")>>)}

FunctorArities == {Integer(i) : i \in -1..MaxArity} \cup {Atom("a")}

\* Functor(term, name, arity, k)
FunctorFirst ==
    /\ fnTerm # Nil
    /\ ~fnFirst.done
    /\ LET r == Functor(fnTerm, fnName, fnArity, fnRefs, fnN)
       IN  /\ fnFirst' = Result(r.ok, r.err)
           /\ fnRefs' = r.refs
           /\ fnN' = r.n
    /\ UNCHANGED <<fnTerm, fnGiven, fnName, fnArity, fnSecond, notFunctor>>

\* Functor(T, N2, A2, k) on what the first call left
FunctorSecond ==
    /\ fnFirst.done
    /\ fnFirst.ok
    /\ ~fnSecond.done
    /\ LET r == Functor(fnTerm, FunctorN2, FunctorA2, fnRefs, fnN)
       IN  /\ fnSecond' = Result(r.ok, r.err)
           /\ fnRefs' = r.refs
           /\ fnN' = r.n
    /\ UNCHANGED <<fnTerm, fnGiven, fnName, fnArity, fnFirst, notFunctor>>

\* the term is given as it is or as the Variable T bound to it, with name and
\* arity unbound; or the term is the unbound Variable T, with name and arity
\* given as they are, as Variables bound to them, or unbound
FunctorInit ==
    /\ OnlyFunctor
    /\ fnN = 5
    /\ fnFirst = NoResult
    /\ fnSecond = NoResult
    /\ \/ \E t \in FunctorTerms :
            /\ fnName = FunctorN
            /\ fnArity = FunctorA
            /\ fnGiven = t
            /\ \/ fnTerm = t /\ fnRefs = [i \in 1..MaxCells |-> Nil]
               \/ /\ fnTerm = FunctorT
                  /\ fnRefs = [i \in 1..MaxCells |-> IF i = 1 THEN t ELSE Nil]
       \/ \E nm \in FunctorNames \cup {Nil}, ar \in FunctorArities \cup {Nil} :
            /\ fnTerm = FunctorT
            /\ fnGiven = Nil
            /\ \/ fnName = FunctorN /\ fnArity = FunctorA
               \/ nm # Nil /\ ar # Nil /\ fnName = nm /\ fnArity = ar
            /\ fnRefs = [i \in 1..MaxCells |->
                           IF i = 2 THEN nm ELSE IF i = 3 THEN ar ELSE Nil]

FunctorNext == FunctorFirst \/ FunctorSecond

SpecFunctor == FunctorInit /\ [][FunctorNext]_vars

\* the first call was given an unbound term, an atom as name and an integer
\* >= 0 as arity
FunctorComposes ==
    /\ fnTerm = FunctorT
    /\ fnGiven = Nil
    /\ fnFirst.done
    /\ Deref(fnName, fnRefs).k = "atom"
    /\ Deref(fnArity, fnRefs).k = "int"
    /\ Deref(fnArity, fnRefs).v >= 0

\* the first call was given an atom or a compound
FunctorDecomposes ==
    /\ fnTerm # Nil
    /\ fnFirst.done
    /\ fnGiven.k \in {"atom", "cmp"}

\* C21: Functor on an atom or compound unifies name and arity with its name
\* and its arity; Functor on an unbound term with an atom N and an integer
\* A >= 0 binds the term to N(V1, ..., VA) with pairwise distinct fresh unbound
\* Variables, to the atom N when A = 0, and Functor(T, N2, A2) then gives
\* N2 = N and A2 = A.
C21_Functor ==
    /\ FunctorDecomposes =>
          /\ fnFirst.ok
          /\ fnFirst.err = ""
          /\ Deref(fnName, fnRefs) = Atom(fnGiven.n)
          /\ Deref(fnArity, fnRefs) = Integer(Len(fnGiven.args))
    /\ FunctorComposes =>
          LET nm == Deref(fnName, fnRefs)
              ar == Deref(fnArity, fnRefs)
              t == Deref(FunctorT, fnRefs)
          IN  /\ fnFirst.ok
              /\ fnFirst.err = ""
              /\ IF ar.v = 0
                 THEN t = nm
                 ELSE /\ t.k = "cmp"
                      /\ t.n = nm.n
                      /\ Len(t.args) = ar.v
                      /\ \A i \in 1..ar.v :
                           /\ t.args[i].k = "var"
                           /\ t.args[i].v > 5
                           /\ \A j \in 1..ar.v : t.args[i] = t.args[j] => i = j
              /\ fnSecond.done =>
                   /\ fnSecond.ok
                   /\ Deref(FunctorN2, fnRefs) = nm
                   /\ Deref(FunctorA2, fnRefs) = ar

-----------------------------------------------------------------------------
(***************************************************************************)
(* Functor and Univ on arguments they fail on.                             *)
(***************************************************************************)
\* an unbound Variable of the caller in the list given to Univ
UnivX == Cell(4)

\* the lists given to Univ with an unbound term: Nil is the unbound L
UnivLists ==
    {Nil, List(<<Atom("foo")>>), List(<<Integer(1)>>), Atom("a"), Atom("[]"),
     Cons(UnivX, Atom("[]")), Cons(Atom("foo"), UnivX), Cons(Atom("foo"), Atom("a")),
     List(<<Compound("g", <<Atom("a")>>), Atom("a")>>)}

\* Functor with term, name and arity each given or unbound; Univ with an
\* unbound term and L bound to a list or unbound
FailInit ==
    \/ /\ OnlyFunctor
       /\ fnN = 5
       /\ fnFirst = NoResult
       /\ fnSecond = NoResult
       /\ fnTerm = FunctorT
       /\ fnName = FunctorN
       /\ fnArity = FunctorA
       /\ \E t \in FunctorTerms \cup {Nil}, nm \in FunctorNames \cup {Nil},
             ar \in FunctorArities \cup {Nil} :
            /\ fnGiven = t
            /\ fnRefs = [i \in 1..MaxCells |->
                           IF i = 1 THEN t ELSE IF i = 2 THEN nm
                           ELSE IF i = 3 THEN ar ELSE Nil]
    \/ /\ OnlyUniv
       /\ uvN = 4
       /\ uvFirst = NoResult
       /\ uvSecond = NoResult
       /\ uvT = UnivT
       /\ \E l \in UnivLists :
            uvRefs = [i \in 1..MaxCells |-> IF i = 1 THEN l ELSE Nil]

FailNext == FunctorFirst \/ FunctorSecond \/ UnivDecompose \/ UnivCompose

SpecFail == FailInit /\ [][FailNext]_vars

\* the first n Variables are bound as they were
Kept(old, new, n) == \A i \in 1..n : new[i] = old[i]

\* what a call that crashes leaves as its error
Panics == {"nil pointer dereference", "panic: makeslice: len out of range"}

\* C37: a call of Functor or Univ that returns false or an error has bound
\* none of the Variables its arguments hold, and Univ with an unbound term
\* and a list that is no proper list headed by an atom returns an error and
\* does not crash.
C37_FailureBindsNothing ==
    [][/\ (fnFirst' # fnFirst /\ ~fnFirst'.ok) => Kept(fnRefs, fnRefs', fnN)
       /\ (fnSecond' # fnSecond /\ ~fnSecond'.ok) => Kept(fnRefs, fnRefs', fnN)
       /\ (uvFirst' # uvFirst /\ ~uvFirst'.ok) =>
            /\ Kept(uvRefs, uvRefs', uvN)
            /\ uvFirst'.err \notin Panics
       /\ (uvSecond' # uvSecond /\ ~uvSecond'.ok) =>
            /\ Kept(uvRefs, uvRefs', uvN)
            /\ uvSecond'.err \notin Panics]_vars

\* Functor(f(..), N, 2) with a term of one argument returned false and left
\* N bound to f
C37_FunctorBinds ==
    /\ fnFirst.done /\ ~fnFirst.ok /\ fnFirst.err = ""
    /\ fnGiven # Nil /\ fnGiven.k = "cmp" /\ Len(fnGiven.args) = 1
    /\ fnRefs[3] = Integer(2)
    /\ fnRefs[2] = Atom(fnGiven.n)

\* Univ(T, L) with T and L unbound returned an error and left L bound
C37_UnivBinds ==
    /\ uvFirst.done /\ ~uvFirst.ok /\ uvFirst.err = "invalid argument"
    /\ uvT = UnivT /\ uvRefs[3] = Nil
    /\ uvRefs[1] # Nil /\ uvRefs[1].k = "cmp"
    /\ uvRefs[1].args[1].k = "var"

\* Univ(T, [foo | X]) with X unbound crashed
C37_UnivCrashes ==
    /\ uvFirst.done /\ uvFirst.err = "nil pointer dereference"
    /\ uvRefs[1] # Nil /\ uvRefs[1].k = "cmp" /\ uvRefs[1].args[1] = Atom("foo")

-----------------------------------------------------------------------------
(***************************************************************************)
(* Engine.Assertz: directives, built-in predicates.                        *)
(***************************************************************************)
IsDirective(t) == t.k = "cmp" /\ t.n = ":-" /\ Len(t.args) = 1

\* C22: Assertz of a directive ':-'(G) hands G to arrive at once and stores
\* nothing: the procedure table after the call, and all through the run of G,
\* is the table before the call, with no entry for :-/1.
C22_DirectiveStoresNothing ==
    [][/\ \A t \in AssertzTerms :
            (IsDirective(t) /\ Assertz(t)) =>
                /\ procedures' = procedures
                /\ asserted' = asserted
                /\ goal' = t.args[1]
                /\ \/ phase' = "run" /\ Len(stack') = 1 /\ assertErr' = ""
                   \/ phase' = "load" /\ assertErr' # ""
       /\ phase = "run" => procedures' = procedures
       /\ procedureIndicator(":-", 1) \notin DOMAIN procedures']_vars

\* the directive :- p(2) has run to its end, after two clauses were stored
C22_Witness ==
    /\ goal = P(Integer(2))
    /\ phase = "done"
    /\ result = Result(TRUE, "")
    /\ Len(asserted) = 2
    /\ Len(Lookup(procedures, procedureIndicator("p", 1)).cs) = 2

\* the head of the clause t
HeadOfClause(t) ==
    IF t.k = "cmp" /\ t.n = ":-" /\ Len(t.args) = 2 THEN t.args[1] ELSE t

\* the predicate of the head of the clause t is a built-in
HeadIsBuiltin(t) ==
    /\ ~IsDirective(t)
    /\ HeadOfClause(t).k \in {"atom", "cmp"}
    /\ Lookup(procedures,
              procedureIndicator(HeadOfClause(t).n, Len(HeadOfClause(t).args))).kind
          = "builtin"

IsPermissionError(e) == Len(e) >= 16 /\ SubSeq(e, 1, 16) = "permission_error"

\* Assertz of a clause with a built-in head returns an error, runs nothing
\* and leaves the procedure table as it was
AssertzBuiltinRefused(t) ==
    /\ procedures' = procedures
    /\ asserted' = asserted
    /\ assertErr' # ""
    /\ UNCHANGED <<stack, phase, solutions, result>>

\* C23: Assertz of a fact or rule whose head predicate is a built-in returns
\* a permission error without running the continuation and leaves every
\* entry of the procedure table unchanged.
C23_AssertzBuiltin ==
    [][\A t \in AssertzTerms :
          (HeadIsBuiltin(t) /\ Assertz(t)) =>
              /\ AssertzBuiltinRefused(t)
              /\ IsPermissionError(assertErr')]_vars

-----------------------------------------------------------------------------
(***************************************************************************)
(* Engine.Op(precedence, typ, name, k) with a continuation k that returns  *)
(* true.  The table is a slice: ops holds the backing array, of which the  *)
(* first m entries are e.operators.                                        *)
(***************************************************************************)
MaxOps == 3

operator(p, t, n) == [Precedence |-> p, Type |-> t, Name |-> n]

\* what Op returns, and the table it leaves
OpReturn(ok, err, ops) == [ok |-> ok, err |-> err, ops |-> ops]

\* sort.Search(hi, func(i) { return ops[i].Precedence >= p }) as a binary
\* search over the 0-based indices lo..hi
RECURSIVE opSearch(_, _, _, _)
opSearch(ops, p, lo, hi) ==
    IF lo >= hi
    THEN lo
    ELSE LET h == (lo + hi) \div 2
         IN  IF ops[h + 1].Precedence >= p
             THEN opSearch(ops, p, lo, h)
             ELSE opSearch(ops, p, h + 1, hi)

\* the new entry put at the end of the table
opInsertAtEnd(ops, p, t, n) == OpReturn(TRUE, "", Append(ops, operator(p, t, n)))

\* the part of Op after the loop: insert
opInsert(ops, p, t, n) ==
    LET i == opSearch(ops, p, 0, Len(ops))
    IN  OpReturn(TRUE, "",
                 SubSeq(ops, 1, i) \o <<operator(p, t, n)>> \o SubSeq(ops, i + 1, Len(ops)))

\* the entry an Op call with type t and name n takes as already defined
opDefined(o, t, n) == o.Type = t /\ o.Name = n

\* the loop of Op over the entries i..Len(ops) the range statement took from
\* the table, of which the first m are still the table
RECURSIVE opLoop(_, _, _, _, _, _)
opLoop(ops, m, i, p, t, n) ==
    IF i > Len(ops)
    THEN opInsert(SubSeq(ops, 1, m), p, t, n)
    ELSE IF ~opDefined(ops[i], t, n)
    THEN opLoop(ops, m, i + 1, p, t, n)
    ELSE IF i > m
    THEN OpReturn(FALSE, "panic: slice bounds out of range", SubSeq(ops, 1, m))
    ELSE LET removed == [j \in 1..Len(ops) |->
                            IF j < i THEN ops[j]
                            ELSE IF j < m THEN ops[j + 1]
                            ELSE IF j = m THEN operator(0, "", "")
                            ELSE ops[j]]
         IN  IF p = 0
             THEN OpReturn(TRUE, "", SubSeq(removed, 1, m - 1))
             ELSE opLoop(removed, m - 1, i + 1, p, t, n)

\* Op on the table ops
Op(precedence, typ, nm, ops) ==
    IF precedence.k # "int"
    THEN OpReturn(FALSE, "invalid precedence", ops)
    ELSE IF typ.k # "atom"
    THEN OpReturn(FALSE, "invalid type", ops)
    ELSE IF nm.k # "atom"
    THEN OpReturn(FALSE, "invalid name", ops)
    ELSE opLoop(ops, Len(ops), 1, precedence.v, typ.n, nm.n)

\* arguments of the calls
OpPrecedences ==
    {Integer(0), Integer(200), Integer(400), Integer(1201), Integer(-1), Atom("a"),
     Variable("X")}

OpTypes == {Atom("fx"), Atom("fy"), Atom("yfx"), Atom("foo"), Integer(1)}

OpNames == {Atom("-"), Atom("+"), Integer(1)}

\* e.Op(precedence, typ, name, k)
OpCall(precedence, typ, nm) ==
    /\ operators # NoTable
    /\ Len(operators) < MaxOps
    /\ LET r == Op(precedence, typ, nm, operators)
       IN  /\ operators' = r.ops
           /\ opRet' = Result(r.ok, r.err)
    /\ UNCHANGED notOp

\* a new engine: no operators
OpInit ==
    /\ OnlyOp
    /\ operators = <<>>
    /\ opRet = NoResult

OpNext ==
    \E precedence \in OpPrecedences, typ \in OpTypes, nm \in OpNames :
        OpCall(precedence, typ, nm)

SpecOp == OpInit /\ [][OpNext]_vars

Specifiers == {"fx", "fy", "xf", "yf", "xfx", "xfy", "yfx"}

SpecifierClass(t) ==
    CASE t \in {"fx", "fy"} -> "prefix"
      [] t \in {"xf", "yf"} -> "postfix"
      [] t \in {"xfx", "xfy", "yfx"} -> "infix"
      [] OTHER -> t

\* C24: the operator table holds at most one entry for a name and a specifier
\* class (prefix: fx, fy; postfix: xf, yf; infix: xfx, xfy, yfx).
C24_OneOperatorPerClass ==
    operators # NoTable =>
        \A i, j \in 1..Len(operators) :
            (/\ operators[i].Name = operators[j].Name
             /\ SpecifierClass(operators[i].Type) = SpecifierClass(operators[j].Type))
                => i = j

\* C25: every entry of the operator table has a priority in 1..1200 and one
\* of the seven specifiers; an Op call with a priority outside 0..1200, or
\* with a type that is no specifier, returns an error and leaves the table
\* as it was.
C25_OperatorsValid ==
    [][/\ operators' # NoTable =>
            \A i \in 1..Len(operators') :
                /\ operators'[i].Precedence \in 1..1200
                /\ operators'[i].Type \in Specifiers
       /\ \A precedence \in OpPrecedences, typ \in OpTypes, nm \in OpNames :
            (/\ OpCall(precedence, typ, nm)
             /\ \/ precedence.k = "int" /\ precedence.v \notin 0..1200
                \/ typ.k = "atom" /\ typ.n \notin Specifiers)
                => /\ opRet'.err # ""
                   /\ operators' = operators]_vars

\* the table tbl has an entry of type t and name n
HasOperator(tbl, t, n) == \E i \in 1..Len(tbl) : opDefined(tbl[i], t, n)

\* C34: after an Op call with precedence 0 the table has no entry of the
\* given type and name: an entry that was there is removed, and when there
\* was none the table is what it was; the table never holds an entry with
\* precedence 0.
C34_OpZeroRemoves ==
    [][/\ \A typ \in OpTypes, nm \in OpNames :
            (OpCall(Integer(0), typ, nm) /\ typ.k = "atom" /\ nm.k = "atom")
                => /\ ~HasOperator(operators', typ.n, nm.n)
                   /\ ~HasOperator(operators, typ.n, nm.n) => operators' = operators
       /\ \A i \in 1..Len(operators') : operators'[i].Precedence # 0]_vars

-----------------------------------------------------------------------------
(***************************************************************************)
(* Engine.CurrentOp(precedence, typ, name, k) on the table the Op calls    *)
(* have left.  ks[i] is what k returns when it is called for entry i.      *)
(***************************************************************************)
\* newAssignment(precedence, typ, name): the unbound Variables of the terms
newAssignment(ts, cells) == FreeVariables(ts, cells)

\* a.reset() left out where the three Unify calls did not all succeed
resetAfterOffer(a, offered, cells) ==
    IF offered THEN ResetVariables(a, cells) ELSE cells

\* a.reset() at the end of the loop body
reset(a, offered, cells) == ResetVariables(a, cells)

\* op.Precedence.Unify(precedence) && op.Type.Unify(typ) && op.Name.Unify(name)
opUnify(o, ts, cells) ==
    LET third(u) == IF ~u.ok THEN u ELSE UnifyCells(Atom(o.Name), ts[3], u.refs)
        second(u) == IF ~u.ok THEN u ELSE third(UnifyCells(Atom(o.Type), ts[2], u.refs))
    IN  second(UnifyCells(Integer(o.Precedence), ts[1], cells))

\* what CurrentOp returns and leaves; log has one entry for every table
\* entry the loop came to: the cells before the Unify calls, whether k was
\* called, and the cells it was called with
CurrentOpReturn(ok, err, cells, log) ==
    [done |-> TRUE, ok |-> ok, err |-> err, refs |-> cells, log |-> log]

Tried(i, cells, u) == [i |-> i, before |-> cells, offered |-> u.ok, at |-> u.refs]

\* the loop of CurrentOp from table entry i on
RECURSIVE currentOpFrom(_, _, _, _, _, _, _)
currentOpFrom(tbl, i, ts, a, ks, cells, log) ==
    LET offerTo(u) ==
            IF ~u.ok
            THEN currentOpFrom(tbl, i + 1, ts, a, ks, reset(a, FALSE, u.refs),
                               Append(log, Tried(i, cells, u)))
            ELSE IF ks[i].err # ""
            THEN IF ks[i].err = "cut"
                 THEN CurrentOpReturn(ks[i].ok, ks[i].err, u.refs,
                                      Append(log, Tried(i, cells, u)))
                 ELSE CurrentOpReturn(FALSE, ks[i].err, u.refs,
                                      Append(log, Tried(i, cells, u)))
            ELSE IF ks[i].ok
            THEN CurrentOpReturn(TRUE, "", u.refs, Append(log, Tried(i, cells, u)))
            ELSE currentOpFrom(tbl, i + 1, ts, a, ks, reset(a, TRUE, u.refs),
                               Append(log, Tried(i, cells, u)))
    IN  IF i > Len(tbl)
        THEN CurrentOpReturn(FALSE, "", cells, log)
        ELSE offerTo(opUnify(tbl[i], ts, cells))

CurrentOp(precedence, typ, nm, ks, tbl, cells) ==
    currentOpFrom(tbl, 1, <<precedence, typ, nm>>,
                  newAssignment(<<precedence, typ, nm>>, cells), ks, cells, <<>>)

\* what k returns: true, false, an error, or the error of a cut
KReturns ==
    {[ok |-> TRUE, err |-> ""], [ok |-> FALSE, err |-> ""], [ok |-> FALSE, err |-> "error"],
     [ok |-> TRUE, err |-> "cut"]}

\* k returns false until it is called for entry j; the loop ends at the
\* first call that does not return false
KCalls ==
    {[i \in 1..MaxOps |-> IF i = j THEN r ELSE [ok |-> FALSE, err |-> ""]] :
        j \in 1..MaxOps, r \in KReturns}

\* the Op calls before the CurrentOp call
CurPrecedences == {Integer(0), Integer(200), Integer(400)}

CurTypes == {Atom("fx"), Atom("yfx")}

CurNames == {Atom("-"), Atom("+")}

\* the Variables are unbound, or the third one is bound to the atom -
CurCells ==
    {[i \in 1..3 |-> Nil], [i \in 1..3 |-> IF i = 3 THEN Atom("-") ELSE Nil]}

\* e.CurrentOp(precedence, typ, name, k)
CurrentOpCall(precedence, typ, nm, ks, cells) ==
    /\ operators # NoTable
    /\ ~coOut.done
    /\ coArgs' = <<precedence, typ, nm>>
    /\ coKs' = ks
    /\ coRefs' = cells
    /\ coOut' = CurrentOp(precedence, typ, nm, ks, operators, cells)
    /\ UNCHANGED notCur

CurNext ==
    \/ \E precedence \in CurPrecedences, typ \in CurTypes, nm \in CurNames :
          ~coOut.done /\ OpCall(precedence, typ, nm)
    \/ \E precedence \in {Cell(1), Integer(200)}, typ \in {Cell(2), Atom("fx")},
          nm \in {Cell(2), Cell(3), Atom("-")}, ks \in KCalls,
          cells \in CurCells :
             CurrentOpCall(precedence, typ, nm, ks, cells)

SpecCurrentOp == OpInit /\ [][CurNext]_vars

\* the entries of the table that match the arguments as they were when the
\* call began, in the order of the table
Matching ==
    SelectSeq([i \in 1..Len(operators) |-> i],
              LAMBDA i : opUnify(operators[i], coArgs, coRefs).ok)

\* the entries k was called for, in the order of the calls
Offered == [j \in 1..Len(SelectSeq(coOut.log, LAMBDA e : e.offered)) |->
               SelectSeq(coOut.log, LAMBDA e : e.offered)[j].i]

\* C35: the operator table is ordered by non-decreasing precedence after
\* every Op call; CurrentOp calls its continuation for the matching entries
\* in the order of the table, each with the bindings of that entry, up to the
\* first entry for which the continuation returns true (or an error), and
\* for all of them when it never does.
C35_CurrentOpOrder ==
    /\ \A i \in 1..(Len(operators) - 1) :
          operators[i].Precedence <= operators[i + 1].Precedence
    /\ coOut.done
          => /\ Len(Offered) <= Len(Matching)
             /\ \A j \in 1..Len(Offered) :
                   /\ Offered[j] = Matching[j]
                   /\ (coKs[Offered[j]].ok \/ coKs[Offered[j]].err # "") => j = Len(Offered)
             /\ \A j \in 1..Len(coOut.log) :
                   coOut.log[j].offered
                      => coOut.log[j].at
                            = opUnify(operators[coOut.log[j].i], coArgs, coRefs).refs
             /\ (\A j \in 1..Len(Offered) : coKs[Offered[j]] = [ok |-> FALSE, err |-> ""])
                   => Offered = Matching /\ ~coOut.ok /\ coOut.err = ""
             /\ (coOut.ok /\ coOut.err = "")
                   => Len(Offered) > 0 /\ coKs[Offered[Len(Offered)]].ok

\* current_op(P, T, N) on a table with three operators: k returned false
\* for the first two and true for the third
C35_Witness ==
    /\ coOut.done /\ coOut.ok
    /\ Len(operators) = 3
    /\ coArgs = <<Cell(1), Cell(2), Cell(3)>>
    /\ coRefs = [i \in 1..3 |-> Nil]
    /\ Offered = <<1, 2, 3>>
    /\ operators[1].Precedence < operators[3].Precedence

\* the Variables among the three arguments that were unbound when the call
\* began
UnboundAtEntry ==
    {v \in 1..3 : coRefs[v] = Nil /\ \E i \in 1..3 : coArgs[i] = Cell(v)}

\* C36: each time CurrentOp comes to a table entry, and when it returns
\* false after the last one, every Variable among its arguments that was
\* unbound when the call began is unbound, whether the entry before unified
\* with all three arguments, with the first or the first two of them only,
\* or the continuation returned false.
C36_CurrentOpResets ==
    coOut.done
        => /\ \A j \in 1..Len(coOut.log) :
                 \A v \in UnboundAtEntry : coOut.log[j].before[v] = Nil
           /\ (~coOut.ok /\ coOut.err = "")
                 => \A v \in UnboundAtEntry : coOut.refs[v] = Nil

\* current_op(P, T, T): the first entry bound P and T and then failed on the
\* name, the second entry was tried after it, and the call returned false
C36_Witness ==
    /\ coOut.done /\ ~coOut.ok /\ coOut.err = ""
    /\ coArgs = <<Cell(1), Cell(2), Cell(2)>>
    /\ Len(coOut.log) >= 2
    /\ ~coOut.log[1].offered
    /\ coOut.log[1].at[1] # Nil /\ coOut.log[1].at[2] # Nil
    /\ coOut.log[2].before = coRefs
    /\ coOut.refs = coRefs


-----------------------------------------------------------------------------
(***************************************************************************)
(* parseInteger: integer literals at the edges of the 64-bit range.        *)
(***************************************************************************)
\* the numbers the literals are written from: small ones, the neighbours of
\* 2^31 and 2^53, 2^63 - 1, 2^63, 2^63 + 1, 2^64 - 1, 2^64, 2^64 + 1 and two
\* numbers of more than 64 bits
IntegerValues ==
    {<<>>,
     <<1>>,
     <<9>>,
     <<255>>,
     <<5536, 6>>,
     <<3648, 4748, 21>>,
     <<993, 5474, 1992, 9007>>,
     <<5807, 5477, 368, 3372, 922>>,
     <<5808, 5477, 368, 3372, 922>>,
     <<5809, 5477, 368, 3372, 922>>,
     <<1615, 955, 737, 6744, 1844>>,
     <<1616, 955, 737, 6744, 1844>>,
     <<1617, 955, 737, 6744, 1844>>,
     <<3235, 1910, 1474, 3488, 3689>>,
     <<5769, 1131, 7174, 1620, 8059, 11>>}

IntegerBases == {2, 8, 10, 16}

\* the digits of x in the base
RECURSIVE BigFormat(_, _)
BigFormat(x, base) ==
    IF x = <<>>
    THEN ""
    ELSE BigFormat(BigQuo(x, base), base) \o HexDigits[BigRem(x, base) + 1]

\* the literal of x in the base, as the lexer passes it to parseInteger
Literal(x, base) ==
    (CASE base = 2 -> "0b" [] base = 8 -> "0o" [] base = 16 -> "0x" [] OTHER -> "")
        \o (IF x = <<>> THEN "0" ELSE BigFormat(x, base))

ParseIntegerCall ==
    /\ ~intRet.done
    /\ LET r == parseInteger(intSign, intStr)
       IN  intRet' = [done |-> TRUE, err |-> r.err, neg |-> r.neg, mag |-> r.mag]
    /\ UNCHANGED <<intSign, intStr, intValue, notInt>>

IntInit ==
    /\ OnlyInt
    /\ intSign \in {1, -1}
    /\ intValue \in IntegerValues
    /\ intStr \in {Literal(intValue, base) : base \in IntegerBases}
    /\ intRet = [done |-> FALSE, err |-> "", neg |-> FALSE, mag |-> <<>>]

IntNext == ParseIntegerCall

SpecInt == IntInit /\ [][IntNext]_vars

\* sign times the number of the literal lies in -2^63 .. 2^63 - 1
IntInRange ==
    IF intSign < 0 THEN ~BigLess(Big2p63, intValue) ELSE BigLess(intValue, Big2p63)

\* C29: parseInteger(sign, s) returns exactly sign times the value of a
\* decimal, 0b, 0o or 0x literal when that lies in -2^63 .. 2^63 - 1, the
\* representation error of max_integer when it is above 2^63 - 1 and the one
\* of min_integer when it is below -2^63; no other value is ever returned.
C29_ParseInteger ==
    intRet.done =>
        /\ IntInRange =>
              /\ intRet.err = ""
              /\ intRet.mag = intValue
              /\ intRet.neg = (intSign < 0 /\ intValue # <<>>)
        /\ ~IntInRange /\ intSign > 0 =>
              intRet.err = "representation_error(max_integer)"
        /\ ~IntInRange /\ intSign < 0 =>
              intRet.err = "representation_error(min_integer)"

\* -2^63 has been read from its hexadecimal literal
C29_Witness ==
    /\ intRet.done
    /\ intSign = -1
    /\ intStr = "0x8000000000000000"
    /\ intRet.err = ""
    /\ intRet.neg
    /\ intRet.mag = Big2p63


-----------------------------------------------------------------------------
(***************************************************************************)
(* Parser.Replace and Parser.Term: clauses, placeholders and the pool of   *)
(* variables.                                                              *)
(***************************************************************************)
\* Parser.Replace with arguments that are Terms already
Replace(p, placeholder, args) == [p EXCEPT !.placeholder = placeholder, !.args = args]

\* the tokens of the text of the term t: functional notation, lists in
\* brackets, - as a prefix operator and + as an infix operator
RECURSIVE ClauseTokens(_)
RECURSIVE ArgTokens(_, _)
ClauseTokens(t) ==
    CASE t.k = "atom" ->
            <<Token(IF t.n = "?" THEN "graphic" ELSE "letterDigit", t.n)>>
      [] t.k = "var" -> <<Token("variable", t.n)>>
      [] t.k = "int" -> <<Token("integer", Itoa(t.v))>>
      [] t.k = "cmp" /\ t.n = "-" /\ Len(t.args) = 1 ->
            <<Token("graphic", "-")>> \o ClauseTokens(t.args[1])
      [] t.k = "cmp" /\ t.n = "+" /\ Len(t.args) = 2 ->
            ClauseTokens(t.args[1]) \o <<Token("graphic", "+")>>
                \o ClauseTokens(t.args[2])
      [] t.k = "cmp" /\ t.n = "." /\ Len(t.args) = 2 ->
            <<Token("openList", "[")>> \o ArgTokens(Elems(t), 1)
                \o <<Token("closeList", "]")>>
      [] OTHER ->
            <<Token("letterDigit", t.n), Token("openCT", "(")>>
                \o ArgTokens(t.args, 1) \o <<Token("close", ")")>>

ArgTokens(ts, i) ==
    IF i > Len(ts)
    THEN <<>>
    ELSE (IF i > 1 THEN <<Token("comma", ",")>> ELSE <<>>)
            \o ClauseTokens(ts[i]) \o ArgTokens(ts, i + 1)

EndToken == Token("end", ".")

ParseLeaves ==
    {Atom("a"), Atom("?"), Variable("X"), Variable("Y"), Variable("_"), Integer(1)}

\* what the prefix operator is written in front of
ParseOperands == ParseLeaves \ {Integer(1)}

ParseSources ==
    ParseLeaves
        \cup {Compound("f", <<x>>) : x \in ParseLeaves}
        \cup {Compound("f", <<x, y>>) : x \in ParseLeaves, y \in ParseLeaves}
        \cup {Compound("-", <<x>>) : x \in ParseOperands}
        \cup {Compound("-", <<Compound("f", <<x>>)>>) : x \in ParseOperands}
        \cup {Compound("+", <<x, y>>) : x \in ParseLeaves, y \in ParseLeaves}
        \cup {List(<<x, y>>) : x \in ParseLeaves, y \in ParseLeaves}
        \cup {Compound("f", <<Compound("-", <<x>>), y>>) :
                x \in ParseOperands, y \in ParseLeaves}

\* the second clause of the texts of two clauses
SecondClause == Compound("g", <<Variable("X"), Variable("_")>>)

\* the texts read for the term src: its clause, its clause and a second one,
\* its clause cut short with and without an end token, and its clause with
\* a closing parenthesis too many
ParseTexts(src) ==
    {[toks |-> ClauseTokens(src) \o <<EndToken>>, src |-> src],
     [toks |-> ClauseTokens(src) \o <<EndToken>> \o ClauseTokens(SecondClause)
                 \o <<EndToken>>,
      src |-> src],
     [toks |-> ClauseTokens(src) \o <<Token("close", ")"), EndToken>>, src |-> Nil]}
        \cup {[toks |-> SubSeq(ClauseTokens(src), 1, j), src |-> Nil] :
                j \in 0..Len(ClauseTokens(src))}
        \cup {[toks |-> SubSeq(ClauseTokens(src), 1, j) \o <<EndToken>>, src |-> Nil] :
                j \in 0..(Len(ClauseTokens(src)) - 1)}

ParseTable == <<Operator(200, "fy", "-"), Operator(500, "yfx", "+")>>

ParseArgLists == {<<>>, <<Atom("b")>>, <<Atom("b"), Integer(2)>>}

\* p.Replace("?", args...) before the first clause is read
ParserReplace ==
    /\ parsePos = 1
    /\ parseRet.calls = 0
    /\ parseP.placeholder = ""
    /\ parseP' = Replace(parseP, "?", parseArgs)
    /\ UNCHANGED <<parseToks, parseOps, parseSrc, parseArgs, parsePos, parseStart,
                   parseRet, notParse>>

\* p.Term(), until it returns an error
ParserTerm ==
    /\ parsePos >= 1
    /\ parseRet.err = ""
    /\ LET r == Term(parseToks, parseOps, parsePos, parseP)
       IN  /\ parseP' = r.p
           /\ parsePos' = r.pos
           /\ parseRet' = [calls |-> parseRet.calls + 1, err |-> r.err, val |-> r.val]
    /\ parseStart' = parsePos
    /\ UNCHANGED <<parseToks, parseOps, parseSrc, parseArgs, notParse>>

ParseInit ==
    /\ OnlyParse
    /\ \E src \in ParseSources : \E text \in ParseTexts(src) :
          /\ parseToks = text.toks
          /\ parseSrc = text.src
    /\ parseOps = ParseTable
    /\ parseArgs \in ParseArgLists
    /\ parseP \in {ParserOf("", <<>>, pooled, <<>>, 0) : pooled \in BOOLEAN}
    /\ parsePos = 1
    /\ parseStart = 1
    /\ parseRet = [calls |-> 0, err |-> "", val |-> Nil]

ParseNext == ParserReplace \/ ParserTerm

SpecParse == ParseInit /\ [][ParseNext]_vars

\* the term t with every variable made the same
RECURSIVE Blank(_)
Blank(t) ==
    CASE t.k = "var" -> Variable("_")
      [] t.k = "cmp" -> Compound(t.n, [i \in 1..Len(t.args) |-> Blank(t.args[i])])
      [] OTHER -> t

\* the first end token from the start of the last call of Term on, 0 when
\* there is none
FirstEnd ==
    firstOf({i \in parseStart..Len(parseToks) : parseToks[i].Kind = "end"})

\* the tokens of the kinds in the set from the start of the last call of
\* Term up to the first end token
TokensOfKind(kinds) ==
    Cardinality({i \in parseStart..(FirstEnd - 1) : parseToks[i].Kind \in kinds})

\* the clause the last call of Term began at opens and closes differently
\* many brackets
Unbalanced ==
    TokensOfKind({"open", "openCT", "openList", "openCurly"})
        # TokensOfKind({"close", "closeList", "closeCurly"})

\* C26: a call of Parser.Term on a parser without placeholder returns io.EOF
\* when its first token is EOF; it returns no term when no end token follows,
\* and then ErrInsufficient unless a token of the stream stands where it is
\* not expected; it returns the unexpected-token error when the clause up to
\* its end token opens brackets it does not close, or closes brackets it did
\* not open; when it returns a term it has read up to and including the
\* first end token and no further, and the term is the one the clause was
\* written from.
C26_TermReadsOneClause ==
    (parseRet.calls > 0 /\ parseP.placeholder = "") =>
        /\ (parseRet.err = "EOF") = (nextToken(parseToks, parseStart).Kind = "EOF")
        /\ (nextToken(parseToks, parseStart).Kind # "EOF" /\ FirstEnd = 0) =>
              \/ parseRet.err = "insufficient"
              \/ /\ parseRet.err = "unexpected token"
                 /\ nextToken(parseToks, parsePos).Kind # "EOF"
        /\ parseRet.err = "insufficient" => FirstEnd = 0
        /\ (FirstEnd # 0 /\ Unbalanced) => parseRet.err = "unexpected token"
        /\ parseRet.err = "" =>
              /\ FirstEnd # 0
              /\ parsePos = FirstEnd + 1
              /\ (parseRet.calls = 1 /\ parseSrc # Nil) =>
                    Blank(parseRet.val) = Blank(parseSrc)
              /\ parseRet.calls = 2 => Blank(parseRet.val) = Blank(SecondClause)

\* the occurrences of the placeholder ? in the term t
RECURSIVE Occurrences(_)
RECURSIVE OccurrencesIn(_, _)
Occurrences(t) ==
    CASE t = Atom("?") -> 1
      [] t.k = "cmp" -> OccurrencesIn(t.args, 1)
      [] OTHER -> 0

OccurrencesIn(ts, i) ==
    IF i > Len(ts) THEN 0 ELSE Occurrences(ts[i]) + OccurrencesIn(ts, i + 1)

\* the term t with its i-th occurrence of ?, from the left, replaced by the
\* (skip + i)-th of the arguments as
RECURSIVE Substituted27(_, _, _)
Substituted27(t, as, skip) ==
    CASE t = Atom("?") -> IF skip < Len(as) THEN as[skip + 1] ELSE t
      [] t.k = "cmp" ->
            Compound(t.n,
                     [i \in 1..Len(t.args) |->
                        Substituted27(t.args[i], as,
                                      skip + OccurrencesIn(SubSeq(t.args, 1, i - 1), 1))])
      [] OTHER -> t

\* C27: after Replace with k arguments, the call of Parser.Term on a clause
\* returns a term only if the clause has exactly k occurrences of the
\* placeholder, and then the term with the i-th occurrence replaced by the
\* i-th argument; with more occurrences than arguments it returns the error
\* of not enough arguments, with fewer the error of too many arguments.
C27_Placeholder ==
    (parseRet.calls = 1 /\ parseP.placeholder # "" /\ parseSrc # Nil) =>
        /\ parseRet.err = "" =>
              /\ Occurrences(parseSrc) = Len(parseArgs)
              /\ Blank(parseRet.val) = Blank(Substituted27(parseSrc, parseArgs, 0))
        /\ Occurrences(parseSrc) > Len(parseArgs) =>
              parseRet.err = "not enough arguments for placeholders"
        /\ Occurrences(parseSrc) < Len(parseArgs) =>
              parseRet.err = "too many arguments for placeholders"

\* the variables of the term t, from the left
RECURSIVE VarLeaves(_)
RECURSIVE VarLeavesIn(_, _)
VarLeaves(t) ==
    CASE t.k = "var" -> <<t>>
      [] t.k = "cmp" -> VarLeavesIn(t.args, 1)
      [] OTHER -> <<>>

VarLeavesIn(ts, i) ==
    IF i > Len(ts) THEN <<>> ELSE VarLeaves(ts[i]) \o VarLeavesIn(ts, i + 1)

IsVariableToken(t) == t.Kind = "variable"

\* the names of the variable tokens at the positions a .. b
VariableTokens(a, b) ==
    [i \in DOMAIN SelectSeq(SubSeq(parseToks, a, b), IsVariableToken) |->
        SelectSeq(SubSeq(parseToks, a, b), IsVariableToken)[i].Val]

\* the variable tokens named nm the parser has read
OccurrencesRead(nm) ==
    Cardinality({i \in 1..(parsePos - 1) :
                   /\ nextToken(parseToks, i).Kind = "variable"
                   /\ nextToken(parseToks, i).Val = nm})

\* the variable the pool holds for the name nm
PoolVariable(nm) ==
    parseP.vars[CHOOSE i \in 1..Len(parseP.vars) : parseP.vars[i].Name = nm].Variable

\* the last call of Term returned a term that has a variable for every
\* variable token of its clause
AllVariablesKept ==
    /\ parseRet.calls > 0
    /\ parseRet.err = ""
    /\ Len(VarLeaves(parseRet.val)) = Len(VariableTokens(parseStart, parsePos - 1))

\* C28: in a parser with a pool of variables, the entries of the pool have
\* different names and different variables, none is named _, every name read
\* has an entry and the entry's Count is the number of tokens of that name
\* read so far; every token _ made one new variable outside the pool; and in
\* a term returned, the variable of a named token is the one of the pool and
\* the variable of a token _ is none of the pool and no other variable of
\* the term.
C28_VariablePool ==
    parseP.pooled =>
        /\ \A i, j \in 1..Len(parseP.vars) :
              i # j => /\ parseP.vars[i].Name # parseP.vars[j].Name
                       /\ parseP.vars[i].Variable # parseP.vars[j].Variable
        /\ \A i \in 1..Len(parseP.vars) :
              /\ parseP.vars[i].Name # "_"
              /\ parseP.vars[i].Count = OccurrencesRead(parseP.vars[i].Name)
        /\ \A i \in 1..(parsePos - 1) :
              (/\ nextToken(parseToks, i).Kind = "variable"
               /\ nextToken(parseToks, i).Val # "_") =>
                 \E j \in 1..Len(parseP.vars) :
                    parseP.vars[j].Name = nextToken(parseToks, i).Val
        /\ parseP.n = Len(parseP.vars) + OccurrencesRead("_")
        /\ AllVariablesKept =>
              \A q \in 1..Len(VarLeaves(parseRet.val)) :
                 IF VariableTokens(parseStart, parsePos - 1)[q] = "_"
                 THEN /\ \A j \in 1..Len(parseP.vars) :
                            parseP.vars[j].Variable # VarLeaves(parseRet.val)[q]
                      /\ \A r \in 1..Len(VarLeaves(parseRet.val)) :
                            r # q => VarLeaves(parseRet.val)[r] # VarLeaves(parseRet.val)[q]
                 ELSE VarLeaves(parseRet.val)[q]
                        = PoolVariable(VariableTokens(parseStart, parsePos - 1)[q])

\* f(X, _) and g(X, _) have been read: X is in the pool with Count 2, and
\* three variables have been made
C28_Witness ==
    /\ parseP.pooled
    /\ parseSrc = Compound("f", <<Variable("X"), Variable("_")>>)
    /\ parseRet.calls = 2
    /\ parseRet.err = ""
    /\ Len(parseP.vars) = 1
    /\ parseP.vars[1].Name = "X"
    /\ parseP.vars[1].Count = 2
    /\ parseP.n = 3
    /\ VarLeaves(parseRet.val) = <<parseP.vars[1].Variable, NewVariable(2)>>


-----------------------------------------------------------------------------
(***************************************************************************)
(* clause.compile inside Engine.Assertz, on clauses with variables that    *)
(* are bound.                                                              *)
(***************************************************************************)
\* cell 1 is unbound, cell 2 is bound to the atom foo, cell 3 to the
\* integer 1
CompileRefs ==
    [i \in 1..(MaxVars + 1) |->
        CASE i = 2 -> Atom("foo") [] i = 3 -> Integer(1) [] OTHER -> Nil]

CompileGoals == {Atom("a"), Integer(1), Cell(1), Cell(2), Cell(3), P(Cell(1))}

CompileTerms ==
    CompileGoals
        \cup {Rule(h, b) : h \in CompileGoals, b \in CompileGoals}
        \cup {Rule(Atom("a"), Conj(g, h)) : g \in CompileGoals, h \in CompileGoals}

CompileInit ==
    /\ procedures = Builtins
    /\ unknown = "error"
    /\ warnings = <<>>
    /\ refs = CompileRefs
    /\ nvars = 4
    /\ invs = <<>>
    /\ stack = <<>>
    /\ result = NoResult
    /\ trace = <<>>
    /\ solutions = <<>>
    /\ phase = "load"
    /\ goal = Nil
    /\ asserted = <<>>
    /\ assertErr = ""
    /\ SolIdle
    /\ TermIdle
    /\ PureIdle

CompileNext == \E t \in CompileTerms : Assertz(t)

SpecCompile == CompileInit /\ [][CompileNext]_vars

\* t is an atom or a compound, or a variable bound to one
Callable(t, rf) == Resolve(t, rf).k \in {"atom", "cmp"}

\* the goals of the conjunction b
RECURSIVE BodyGoals(_, _)
BodyGoals(b, rf) ==
    IF Resolve(b, rf).k = "cmp" /\ Resolve(b, rf).n = "," /\ Len(Resolve(b, rf).args) = 2
    THEN <<Resolve(b, rf).args[1]>> \o BodyGoals(Resolve(b, rf).args[2], rf)
    ELSE <<b>>

\* the clause t, its head and every goal of its body are callable
AllCallable(t, rf) ==
    /\ Callable(t, rf)
    /\ IF Resolve(t, rf).k = "cmp" /\ Resolve(t, rf).n = ":-" /\ Len(Resolve(t, rf).args) = 2
       THEN /\ Callable(Resolve(t, rf).args[1], rf)
            /\ \A i \in 1..Len(BodyGoals(Resolve(t, rf).args[2], rf)) :
                  Callable(BodyGoals(Resolve(t, rf).args[2], rf)[i], rf)
       ELSE TRUE

\* C30: in every call of Assertz, compiling the clause fails with the type
\* error of callable exactly when the clause, its head or a goal of its body
\* conjunction is a number or an unbound variable, and succeeds otherwise;
\* a call of Assertz that fails adds no clause to any procedure.
C30_CompileCallable ==
    [][\A t \in CompileTerms :
          Assertz(t) =>
             /\ compile(NewClause(Nil, t), t, refs).err
                  = (IF AllCallable(t, refs) THEN "" ELSE "type_error(callable)")
             /\ assertErr' # "" => (procedures' = procedures /\ asserted' = asserted)]_vars


-----------------------------------------------------------------------------
(***************************************************************************)
(* clauses.Call on clauses with variables that are attempted more than     *)
(* once: a recursive procedure with a fact and a rule, and the procedures  *)
(* of the clauses above.                                                   *)
(***************************************************************************)
T(t) == Compound("t", <<t>>)

\* t(X) :- t(Y).
ClauseT == Rule(T(Variable("X")), T(Variable("Y")))

\* v(X) :- p(X).
ClauseV == Rule(Compound("v", <<Variable("X")>>), P(Variable("X")))

FrameTerms == {T(Integer(1)), ClauseT, ClauseV, ClauseU, P(Integer(1)), P(Integer(2))}

FrameGoals == {T(Q), Compound("v", <<Q>>), Atom("u"), P(Integer(2))}

FrameNext ==
    \/ \E t \in FrameTerms : Assertz(t)
    \/ \E t \in FrameGoals : Query(t)
    \/ ForceBool
    \/ ForceError
    \/ ForceEnd
    \/ ForceArrive
    \/ CallClauses
    \/ CallBuiltin
    \/ ForceOpaque
    \/ ForceBarrier
    \/ ForceAlts
    \/ ForceExec
    \/ ForceCont
    \/ ForceTop
    \/ ForceExit
    \/ ForceFail
    \/ ForceCut

SpecFrames == Init /\ [][FrameNext]_vars

\* the vars a promise or a continuation hands to exec: [inv, ci, vars]
FrameOf(x) == [inv |-> x.inv, ci |-> x.ci, vars |-> x.vars]

\* the frames of the attempts that are still referred to: by a pending
\* exec, by a continuation that is pending or waits inside a pending arrive
\* or call, and by the continuation k an invocation has captured
Frames ==
    {FrameOf(stack[i]) : i \in {j \in 1..Len(stack) : stack[j].t = "exec"}}
        \cup {FrameOf(stack[i].k) : i \in {j \in 1..Len(stack) : stack[j].k.t = "body"}}
        \cup {FrameOf(invs[i].k) : i \in {j \in 1..Len(invs) : invs[j].k.t = "body"}}

CellsOf(f) == {f.vars[i] : i \in 1..Len(f.vars)}

\* the cells a term of the call arguments leads to
RECURSIVE Reach(_, _)
Reach(t, rf) ==
    IF t.k = "var" /\ t.v > 0
    THEN {t.v} \cup (IF rf[t.v] # Nil THEN Reach(rf[t.v], rf) ELSE {})
    ELSE {}

\* C31: every attempt of a clause gets Variables of its own for the clause's
\* variable table.  The frames of two different attempts (of the same clause
\* in another invocation or a recursive one, or of another clause) have no
\* Variable in common, no frame holds a Variable that existed before its
\* attempt began, and when an attempt begins its Variables are unbound,
\* bound to by nothing, and are none of the Variables of an earlier frame.
C31_FreshFrames ==
    /\ [](/\ \A f \in Frames : \A g \in Frames :
                (f.inv # g.inv \/ f.ci # g.ci) => CellsOf(f) \cap CellsOf(g) = {}
          /\ \A f \in Frames : \A g \in Frames :
                (f.inv = g.inv /\ f.ci = g.ci) => f.vars = g.vars
          /\ \A f \in Frames : \A v \in CellsOf(f) : v > invs[f.inv].nvars0)
    /\ [][(Running /\ Top.t = "alts" /\ ~Top.cut /\ stack' # stack)
             => LET new == stack'[Len(stack')]
                IN  /\ new.t = "exec" /\ new.inv = Top.inv /\ new.ci = Top.ci
                    /\ Len(new.vars) = Len(invs[Top.inv].cs[Top.ci].vars)
                    /\ Cardinality(CellsOf(new)) = Len(new.vars)
                    /\ \A v \in CellsOf(new) :
                          /\ refs'[v] = Nil
                          /\ \A w \in 1..nvars : v \notin Reach(Cell(w), refs')
                          /\ \A f \in Frames : v \notin CellsOf(f)]_vars

\* the rule of t/1 is in its second attempt inside its own first attempt:
\* the outer attempt has bound its Y, the inner one has Variables of its own
C31_Witness ==
    /\ goal = T(Q)
    /\ \E f \in Frames : \E g \in Frames :
          /\ f.inv # g.inv
          /\ invs[f.inv].pi = procedureIndicator("t", 1)
          /\ invs[g.inv].pi = procedureIndicator("t", 1)
          /\ invs[f.inv].cs[f.ci].raw = ClauseT
          /\ invs[g.inv].cs[g.ci].raw = ClauseT
          /\ invs[g.inv].k = BodyK(f.inv, f.ci, invs[g.inv].k.pc, f.vars)
          /\ \E v \in CellsOf(f) : refs[v] # Nil
          /\ \A v \in CellsOf(g) : refs[v] = Nil


-----------------------------------------------------------------------------
(***************************************************************************)
(* The bytecode of clauses with compound arguments, cuts and nested        *)
(* conjunctions, as compile leaves it and as exec runs it.                 *)
(***************************************************************************)
F(t) == Compound("f", <<t>>)

G(t, u) == Compound("g", <<t, u>>)

W(t) == Compound("w", <<t>>)

\* w(X) :- p(f(X)), !, p(g(f(X), Y)).
ClauseW ==
    Rule(W(Variable("X")),
         Conj(P(F(Variable("X"))),
              Conj(Atom("!"), P(G(F(Variable("X")), Variable("Y"))))))

\* c(X) :- call(p(f(X))).
ClauseC == Rule(Compound("c", <<Variable("X")>>), Compound("call", <<P(F(Variable("X")))>>))

\* q :- (!, r), r.
ClauseQ == Rule(Atom("q"), Conj(Conj(Atom("!"), Atom("r")), Atom("r")))

ByteTerms ==
    {P(F(Integer(1))), P(G(F(Variable("X")), Atom("a"))), ClauseW, ClauseC, ClauseQ,
     Atom("r"), Compound(":-", <<P(Variable("X")), Atom("r"), Atom("zz")>>),
     Rule(Atom("q"), Integer(7))}

ByteGoals == {P(Q), P(F(Q)), W(Q), Compound("c", <<Q>>), Atom("q")}

ByteNext ==
    \/ \E t \in ByteTerms : Assertz(t)
    \/ \E t \in ByteGoals : Query(t)
    \/ ForceBool
    \/ ForceError
    \/ ForceEnd
    \/ ForceArrive
    \/ CallClauses
    \/ CallBuiltin
    \/ ForceOpaque
    \/ ForceBarrier
    \/ ForceAlts
    \/ ForceExec
    \/ ForceCont
    \/ ForceTop
    \/ ForceExit
    \/ ForceFail
    \/ ForceCut

SpecByte == Init /\ [][ByteNext]_vars

\* the opcodes exec reads an operand byte after
WithOperand == {opConst, opVar, opFunctor, opCall}

\* the positions of bytecode b at which exec reads an opcode, from i on
RECURSIVE OpcodeAt(_, _)
OpcodeAt(b, i) ==
    IF i > Len(b)
    THEN <<>>
    ELSE <<i>> \o OpcodeAt(b, IF b[i] \in WithOperand THEN i + 2 ELSE i + 1)

\* the opcodes of b in the order exec reads them
Opcodes(b) == [j \in 1..Len(OpcodeAt(b, 1)) |-> b[OpcodeAt(b, 1)[j]]]

\* opFunctors without their opPop among the first j opcodes
RECURSIVE Nesting(_, _)
Nesting(ops, j) ==
    IF j = 0
    THEN 0
    ELSE Nesting(ops, j - 1)
            + (IF ops[j] = opFunctor THEN 1 ELSE IF ops[j] = opPop THEN 0 - 1 ELSE 0)

Count(ops, o) == Cardinality({j \in 1..Len(ops) : ops[j] = o})

\* the opcodes ops are those of a clause, with a body or without
WellFormedOps(ops, withBody) ==
    /\ Len(ops) > 0
    /\ \A j \in 1..Len(ops) :
          /\ ops[j] \in {opEnter, opCall, opExit, opConst, opVar, opFunctor, opPop, opCut}
          /\ ops[j] = opExit <=> j = Len(ops)
          /\ Nesting(ops, j) >= 0
          /\ ops[j] \in {opEnter, opCall, opExit, opCut} => Nesting(ops, j) = 0
    /\ Count(ops, opEnter) = (IF withBody THEN 1 ELSE 0)
    /\ \A j \in 1..Len(ops) : \A e \in 1..Len(ops) :
          ops[e] = opEnter
             => /\ j < e => ops[j] \in {opConst, opVar, opFunctor, opPop}
                /\ ops[j] \in {opCall, opCut} => e < j
    /\ ~withBody => Count(ops, opCall) + Count(ops, opCut) = 0

\* the bytecode of the compiled clause c is well formed
WellFormed(c) ==
    /\ \A j \in 1..Len(OpcodeAt(c.bytecode, 1)) :
          c.bytecode[OpcodeAt(c.bytecode, 1)[j]] \in WithOperand
             => OpcodeAt(c.bytecode, 1)[j] < Len(c.bytecode)
    /\ WellFormedOps(Opcodes(c.bytecode), c.raw.k = "cmp" /\ c.raw.n = ":-")

MalformedErrors == {"non-exit end of bytecode", "unknown op"}

\* C32: the bytecode of every clause that compile has compiled without error
\* ends with opExit and has no other opExit, its opFunctors and opPops are
\* balanced and nested, a clause with a body has exactly one opEnter, after
\* the instructions of the head and before every opCall and opCut, a clause
\* without body has none; exec never returns the error of a bytecode that
\* ends without opExit nor the error of an unknown opcode.  The procedures
\* change only while phase is "load".
C32_BytecodeWellFormed ==
    /\ phase = "load"
          => \A pi \in DOMAIN procedures :
                \A i \in 1..Len(procedures[pi].cs) : WellFormed(procedures[pi].cs[i])
    /\ result.err \notin MalformedErrors
    /\ \A i \in 1..Len(stack) : stack[i].err \notin MalformedErrors

\* w(Q) has run the clause w(X) :- p(f(X)), !, p(g(f(X), Y)) to its opExit:
\* the compounds of both goals were built and matched
C32_Witness ==
    /\ goal = W(Q)
    /\ result = Result(TRUE, "")
    /\ procedures[procedureIndicator("w", 1)].cs[1].raw = ClauseW
    /\ Count(Opcodes(procedures[procedureIndicator("w", 1)].cs[1].bytecode), opFunctor) = 3
    /\ \E a \in 1..Len(trace) :
          /\ trace[a].e = "exit"
          /\ invs[trace[a].inv].pi = procedureIndicator("w", 1)
    /\ \E a \in 1..Len(trace) : trace[a].e = "cut"

-----------------------------------------------------------------------------
(***************************************************************************)
(* clause.varOffset and clause.xrOffset on a clause of many Variables or   *)
(* constants.  The offset is a byte.                                       *)
(***************************************************************************)
\* Variables, or constants, the clause gets
MaxTable == 257

\* the j-th Variable and the j-th constant of the clause
OffVariable(j) == Cell(j)

OffConstant(j) == Integer(j)

\* c.varOffset(o) for the j-th Variable
VarOffsetCall(j) ==
    /\ ocKind = "var"
    /\ LET r == varOffset(ocC, OffVariable(j))
       IN  /\ ocC' = r.c
           /\ ocLast' = [done |-> TRUE, o |-> OffVariable(j), off |-> r.off]
           /\ ocFirst' = IF j > Len(ocFirst) THEN Append(ocFirst, r.off) ELSE ocFirst
    /\ UNCHANGED <<ocKind, notOff>>

\* c.xrOffset(o) for the j-th constant
XrOffsetCall(j) ==
    /\ ocKind = "xr"
    /\ LET r == xrOffset(ocC, OffConstant(j))
       IN  /\ ocC' = r.c
           /\ ocLast' = [done |-> TRUE, o |-> OffConstant(j), off |-> r.off]
           /\ ocFirst' = IF j > Len(ocFirst) THEN Append(ocFirst, r.off) ELSE ocFirst
    /\ UNCHANGED <<ocKind, notOff>>

\* a clause that compile has begun
OffInit ==
    /\ OnlyOff
    /\ ocKind \in {"var", "xr"}
    /\ ocC = NewClause(Nil, Nil)
    /\ ocFirst = <<>>
    /\ ocLast = [done |-> FALSE, o |-> Nil, off |-> 0]

\* the compiler meets the first Variable (constant) again, the newest again,
\* or one it has not met
OffInputs == {1, Len(ocFirst), Len(ocFirst) + 1} \cap 1..MaxTable

OffNext ==
    \/ \E j \in OffInputs : VarOffsetCall(j)
    \/ \E j \in OffInputs : XrOffsetCall(j)

SpecOffset == OffInit /\ [][OffNext]_vars

\* the table the calls work on
OffTable == IF ocKind = "var" THEN ocC.vars ELSE ocC.xrTable

\* C39: varOffset(v) and xrOffset(x) return an index i with vars[i]
\* identical to v, respectively xrTable[i] equal to x, and the index a
\* Variable or constant got first is the index it gets in every later call,
\* for any number of Variables and constants.
C39_OffsetsIndex ==
    ocLast.done =>
        /\ ocLast.off + 1 <= Len(OffTable)
        /\ OffTable[ocLast.off + 1] = ocLast.o
        /\ \A j \in 1..Len(ocFirst) :
              OffTable[j] = ocLast.o => ocFirst[j] = ocLast.off

\* the 257th Variable got the offset 0, where vars holds the first
C39_VarWraps ==
    /\ ocKind = "var"
    /\ Len(ocC.vars) = 257
    /\ ocLast.done /\ ocLast.o = OffVariable(257) /\ ocLast.off = 0
    /\ ocC.vars[1] = OffVariable(1)

\* the 257th constant got the offset 0, where xrTable holds the first
C39_XrWraps ==
    /\ ocKind = "xr"
    /\ Len(ocC.xrTable) = 257
    /\ ocLast.done /\ ocLast.o = OffConstant(257) /\ ocLast.off = 0
    /\ ocC.xrTable[1] = OffConstant(1)

\* up to 256 entries every offset is the index of its entry
C39_HoldsUpTo256 ==
    (ocLast.done /\ Len(OffTable) <= 256) =>
        /\ OffTable[ocLast.off + 1] = ocLast.o
        /\ \A j \in 1..Len(ocFirst) :
              OffTable[j] = ocLast.o => ocFirst[j] = ocLast.off

=============================================================================
